---- MODULE Spec2Model ----
(***************************************************************************)
(* serac::Functional<test(trial0, trial1)> (functional.hpp): the residual  *)
(* evaluation pipeline, the action of its gradient, sparse assembly of the *)
(* gradient and the registration of domain integrals.                      *)
(*                                                                         *)
(* Vectors are functions over 1..n.  An element vector is indexed          *)
(* [element][dof within element].  Trial spaces are numbered from 0 as in  *)
(* the source.                                                             *)
(***************************************************************************)
EXTENDS Integers, Sequences, FiniteSets, TLC

VARIABLES
    integrals_,       \* std::vector<Integral> integrals_
    input_L_,         \* mfem::Vector input_L_[num_trial_spaces]
    output_L_,        \* mfem::Vector output_L_
    output_T_,        \* mfem::Vector output_T_
    block_input_E_,   \* block_input_E_[type][trial space]
    block_output_E_,  \* block_output_E_[type]
    P_trial_,         \* const mfem::Operator* P_trial_[num_trial_spaces]
    grad_,            \* std::vector<Gradient> grad_
    df_,              \* Gradient::df_ of the Gradient for each argument
    col_ind_copy_,    \* Gradient::col_ind_copy_ of the Gradient for each argument
    op,               \* the operation that produced this state
    call,             \* its arguments and what it returned or reported
    trace,            \* the stages that operation ran, in order
    faulted,          \* the process died on an unset member
    dfdx,             \* the Gradient reference the caller holds
    adj,              \* inputs and results of one Gather / ScatterAdd pair
    update_qdata,     \* bool update_qdata
    tables,           \* Gradient::lookup_tables of the Gradient for each argument
    order,            \* test::order and trials::order...
    evector,          \* an EVectorView, the arrays it views and what it returned
    ad,               \* arguments and results of one dual-number evaluation
    lce,              \* one construction of a BrighentiMechanical and what it reported
    cli,              \* one run of cli::defineAndParse
    dco,              \* a DynamicConductionOperator and the objects it refers to
    drv               \* one run of uniaxial_stress_test

vars == << integrals_, input_L_, output_L_, output_T_, block_input_E_,
           block_output_E_, P_trial_, grad_, df_, col_ind_copy_, op, call,
           trace, faulted, dfdx, adj, update_qdata, tables, order, evector, ad,
           lce, cli, dco, drv >>

Functional_vars == << integrals_, input_L_, output_L_, output_T_, block_input_E_,
                      block_output_E_, P_trial_, grad_, df_, col_ind_copy_, op,
                      call, trace, faulted, dfdx, update_qdata, tables, order >>

\* The variables of the checks of pure functions.
Pure_vars == << adj, evector, ad, lce, cli, dco, drv >>

\* The variables of the components outside the Functional's headers.
Aux_vars == << lce, cli, dco, drv >>

----------------------------------------------------------------------------
(* Bounds *)

MaxIntegrals == 2

\* The residual evaluations that update the quadrature-point state.
MaxUpdates == 2

----------------------------------------------------------------------------
(* The instance: two trial spaces, the two integral types, one small mesh. *)

num_trial_spaces == 2

\* test::order and trials::order of the instance the other checks use.
DefaultOrder == [test |-> 1, trials |-> [i \in 0 .. (num_trial_spaces - 1) |-> 1]]

TrialIdx == 0 .. (num_trial_spaces - 1)

IntegralTypes == {"Domain", "Boundary"}

\* Dof numbers of each element: two elements that share local dof 2.
elem_dofs == << <<1, 2>>, <<2, 3>> >>

\* Orientation sign of each element dof: element 2 sees the shared dof reversed.
elem_sign == << <<1, 1>>, <<-1, 1>> >>

Elems == 1 .. Len(elem_dofs)

EDofs == 1 .. Len(elem_dofs[1])

LDofs == 1 .. 3

\* True dof of each local dof: local dof 3 is a copy of true dof 1.
dof_truedof == <<1, 2, 1>>

TDofs == 1 .. 2

\* Trial vectors and perturbations handed to the Functional.
TVecs == { <<1, 0>>, <<1, 2>> }

\* The trial vectors of one call, by trial space.
EvalInputs == { <<v, w>> : v, w \in TVecs }

\* The trial vectors of the calls that differentiate.
GradientInputs == { << <<1, 2>>, <<1, 0>> >> }

TrialVectors(p) == [i \in TrialIdx |-> p[i + 1]]

ZeroL == [l \in LDofs |-> 0]

ZeroT == [t \in TDofs |-> 0]

ZeroE == [e \in Elems |-> [d \in EDofs |-> 0]]

NumLDofs == Cardinality(LDofs)

NumEDofs == Cardinality(EDofs)

NumElems == Cardinality(Elems)

\* f[1] + ... + f[n]
RECURSIVE SumTo(_, _)
SumTo(f, n) == IF n = 0 THEN 0 ELSE f[n] + SumTo(f, n - 1)

\* The sum of f[e][d] over every element e and element dof d.
SumE(f) == SumTo([e \in Elems |-> SumTo(f[e], NumEDofs)], NumElems)

DotL(v, w) == SumTo([l \in LDofs |-> v[l] * w[l]], NumLDofs)

DotE(v, w) == SumE([e \in Elems |-> [d \in EDofs |-> v[e][d] * w[e][d]]])

----------------------------------------------------------------------------
(* Prolongation: true dofs -> local dofs, and its transpose. *)

Prolongate(x) == [l \in LDofs |-> x[dof_truedof[l]]]

ProlongateTranspose(y) ==
    [t \in TDofs |-> SumTo([l \in LDofs |-> IF dof_truedof[l] = t THEN y[l] ELSE 0], NumLDofs)]

----------------------------------------------------------------------------
(* ElementRestriction: local vector <-> element vector. *)

Gather(v) == [e \in Elems |-> [d \in EDofs |-> elem_sign[e][d] * v[elem_dofs[e][d]]]]

ScatterAddNoSign(w, out) ==
    [l \in LDofs |->
        out[l] + SumE([e \in Elems |-> [d \in EDofs |->
                        IF elem_dofs[e][d] = l THEN w[e][d] ELSE 0]])]

ScatterAdd(w, out) ==
    [l \in LDofs |->
        out[l] + SumE([e \in Elems |-> [d \in EDofs |->
                        IF elem_dofs[e][d] = l THEN elem_sign[e][d] * w[e][d] ELSE 0]])]

\* Inputs of the adjointness check.
AdjVals == {-1, 0, 2}

AdjL == [LDofs -> AdjVals]

AdjE == [Elems -> [EDofs -> {-1, 1}]]

AdjInit ==
    \E v \in AdjL, w \in AdjE :
        adj = [v |-> v, w |-> w, applied |-> FALSE, Gv |-> ZeroE, Sw |-> ZeroL]

AdjApply ==
    /\ ~adj.applied
    /\ adj' = [adj EXCEPT !.applied = TRUE,
                          !.Gv = Gather(adj.v),
                          !.Sw = ScatterAdd(adj.w, ZeroL)]
    /\ UNCHANGED << Functional_vars, evector, ad, Aux_vars >>

----------------------------------------------------------------------------
(* Meshes handed to Add...Integral: Dimension() and the element types.     *)

Quad2 == [dim |-> 2, types |-> <<"QUADRILATERAL", "QUADRILATERAL">>]

Hex3 == [dim |-> 3, types |-> <<"HEXAHEDRON", "HEXAHEDRON">>]

Empty2 == [dim |-> 2, types |-> << >>]

Empty3 == [dim |-> 3, types |-> << >>]

\* The domains of the evaluation specification.
EvalDomains == {Quad2, Empty2}

\* The domains of the registration specification.
BuildDomains ==
    {Quad2, Hex3, Empty2, Empty3,
     [dim |-> 0, types |-> <<"POINT", "POINT">>],
     [dim |-> 1, types |-> <<"SEGMENT", "SEGMENT">>],
     [dim |-> 2, types |-> <<"TRIANGLE", "QUADRILATERAL">>],
     [dim |-> 3, types |-> <<"TETRAHEDRON", "HEXAHEDRON">>],
     [dim |-> 3, types |-> <<"HEXAHEDRON", "WEDGE">>],
     [dim |-> 3, types |-> <<"PYRAMID", "HEXAHEDRON">>],
     [dim |-> 3, types |-> <<"WEDGE", "PYRAMID">>],
     [dim |-> 3, types |-> <<"TETRAHEDRON", "TETRAHEDRON", "WEDGE">>]}

\* DependsOn<args...>
DependsOnArgs == { <<1>>, <<0, 1>> }

BuildArgs == { <<0, 1>> }

GradientArgs == { <<0, 1>> }

Range(s) == {s[k] : k \in 1 .. Len(s)}

GetNE(mesh) == Len(mesh.types)

UnsupportedTypes == {"POINT", "WEDGE", "PYRAMID"}

RECURSIVE unsupported_from(_, _)
unsupported_from(mesh, e) ==
    IF e > GetNE(mesh) THEN FALSE
    ELSE IF mesh.types[e] \in UnsupportedTypes THEN TRUE
    ELSE unsupported_from(mesh, e + 1)

contains_unsupported_first_only(mesh) ==
    GetNE(mesh) > 0 /\ mesh.types[1] \in UnsupportedTypes

contains_unsupported_elements(mesh) == unsupported_from(mesh, 1)

\* The element Jacobian block of a fresh Integral.
ZeroBlock == [e \in Elems |-> [d \in EDofs |-> [c \in EDofs |-> 0]]]

MaxOf(S) == CHOOSE x \in S : \A y \in S : y <= x

Q_of_trials == MaxOf({order.trials[i] : i \in TrialIdx}) + 1

\* Q = std::max({test::order, trials::order...}) + 1
Q == MaxOf({order.test} \cup {order.trials[i] : i \in TrialIdx}) + 1

\* BrighentiMechanical::State of one quadrature point as the caller hands it
\* over in qdata.  Tensors are kept by one entry; the distribution tensor is
\* kept as the term of what it was computed from, step counting the
\* evaluations behind it.
InitialState ==
    [deformation_gradient |-> 1, distribution_tensor |-> [step |-> 0], temperature |-> 0]

\* The quadrature points of an element, numbered like its dofs.
QData0 == [e \in Elems |-> [q \in EDofs |-> InitialState]]

\* MakeDomainIntegral<signature, Q, dim>(domain, integrand, qdata, {args...})
MakeDomainIntegral(dim, args) ==
    [type |-> "Domain", dim |-> dim, active_trial_spaces |-> args,
     dq |-> [i \in TrialIdx |-> ZeroBlock], Q |-> Q, qdata |-> QData0]

\* SLIC_ERROR_ROOT_IF(cond, msg): report msg and fail the call, else go on.
SLIC_ERROR_ROOT_IF(cond, msg, rest) ==
    IF cond THEN [err |-> msg, append |-> FALSE] ELSE rest

DomainIntegralChecksNoEarlyReturn(dim, domain) ==
    SLIC_ERROR_ROOT_IF(dim # domain.dim, "invalid mesh dimension for domain integral",
        SLIC_ERROR_ROOT_IF(contains_unsupported_elements(domain),
                           "Mesh contains unsupported element type",
                           [err |-> "none", append |-> TRUE]))

DomainIntegralChecksNoDimension(dim, domain) ==
    IF GetNE(domain) = 0 THEN [err |-> "none", append |-> FALSE]
    ELSE SLIC_ERROR_ROOT_IF(contains_unsupported_elements(domain),
                            "Mesh contains unsupported element type",
                            [err |-> "none", append |-> TRUE])

\* The body of AddDomainIntegral up to the push_back.
DomainIntegralChecks(dim, domain) ==
    IF GetNE(domain) = 0 THEN [err |-> "none", append |-> FALSE]
    ELSE SLIC_ERROR_ROOT_IF(dim # domain.dim, "invalid mesh dimension for domain integral",
            SLIC_ERROR_ROOT_IF(contains_unsupported_elements(domain),
                               "Mesh contains unsupported element type",
                               [err |-> "none", append |-> TRUE]))

AnyDependsOn(args) == TRUE

\* using signature = test(decltype(serac::type<args>(trial_spaces))...): the
\* call is well formed when every index of DependsOn names a trial space.
WellFormedDependsOn(args) == \A k \in 1 .. Len(args) : args[k] \in TrialIdx

\* A call that does not compile leaves no trace in the program.
IllFormedAdd(name, args) ==
    /\ ~faulted
    /\ op' = "ill-formed"
    /\ call' = [accepted |-> FALSE, name |-> name, args |-> args]
    /\ trace' = << >>
    /\ UNCHANGED << integrals_, input_L_, output_L_, output_T_, block_input_E_,
                    block_output_E_, P_trial_, grad_, df_, col_ind_copy_, faulted,
                    dfdx, update_qdata, tables, order, Pure_vars >>

WellFormedAdd(name, dim, args, domain) ==
    LET r == DomainIntegralChecks(dim, domain)
    IN  /\ ~faulted
        /\ r.append => Len(integrals_) < MaxIntegrals
        /\ integrals_' = IF r.append
                         THEN Append(integrals_, MakeDomainIntegral(dim, args))
                         ELSE integrals_
        /\ op' = name
        /\ call' = [dim |-> dim, domain |-> domain, args |-> args, err |-> r.err,
                    unsupported |-> contains_unsupported_elements(domain),
                    before |-> integrals_]
        /\ trace' = << >>
        /\ UNCHANGED << input_L_, output_L_, output_T_, block_input_E_, block_output_E_,
                        P_trial_, grad_, df_, col_ind_copy_, faulted, dfdx, update_qdata, tables, order, Pure_vars >>

DoAddDomainIntegral(name, dim, args, domain) ==
    IF WellFormedDependsOn(args)
    THEN WellFormedAdd(name, dim, args, domain)
    ELSE IllFormedAdd(name, args)

AddDomainIntegral(Domains, Args) ==
    \E dim \in 1 .. 3, args \in Args, domain \in Domains :
        DoAddDomainIntegral("AddDomainIntegral", dim, args, domain)

AddAreaIntegral(Domains, Args) ==
    \E args \in Args, domain \in Domains :
        DoAddDomainIntegral("AddAreaIntegral", 2, args, domain)

AddVolumeIntegral(Domains, Args) ==
    \E args \in Args, domain \in Domains :
        DoAddDomainIntegral("AddVolumeIntegral", 3, args, domain)

AddOps == {"AddDomainIntegral", "AddAreaIntegral", "AddVolumeIntegral"}

----------------------------------------------------------------------------
(* Integral: the q-function of every integral is                           *)
(*   f = 1 + sum over its active trial spaces i of (i + 1) * u_i^2,        *)
(* integrated against the test functions with the element matrix Mel.      *)

Mel == << <<2, 1>>, <<1, 2>> >>

qf(I, inE, e, c) ==
    1 + SumTo([k \in 1 .. Len(I.active_trial_spaces) |->
                 LET i == I.active_trial_spaces[k]
                 IN  (i + 1) * inE[i][e][c] * inE[i][e][c]],
              Len(I.active_trial_spaces))

\* Integral::Mult, the element output: overwrites the whole output buffer.
IntegralMult(I, inE) ==
    [e \in Elems |-> [d \in EDofs |->
        SumTo([c \in EDofs |-> Mel[d][c] * qf(I, inE, e, c)], NumEDofs)]]

\* Integral::Mult, the derivative kept for GradientMult when wrt is active.
IntegralMultDerivative(I, inE, wrt) ==
    IF wrt \in Range(I.active_trial_spaces)
    THEN [I EXCEPT !.dq[wrt] =
            [e \in Elems |-> [d \in EDofs |-> [c \in EDofs |->
                Mel[d][c] * (wrt + 1) * 2 * inE[wrt][e][c]]]]]
    ELSE I

\* BrighentiMechanical::calculateDistributionTensor(F_hat, theta, state)
calculateDistributionTensor(F_hat, theta, state) ==
    [step |-> state.distribution_tensor.step + 1, F_hat |-> F_hat, theta |-> theta,
     theta_old |-> state.temperature, mu_old |-> state.distribution_tensor]

\* BrighentiMechanical::operator()(x, displacement, displacement_grad, state,
\* temperature): what it leaves in state.
BrighentiMechanical(displacement_grad, state, temperature) ==
    LET F     == displacement_grad + 1
        F_old == state.deformation_gradient
        F_hat == [F |-> F, F_old |-> F_old]
        mu    == calculateDistributionTensor(F_hat, temperature, state)
    IN  [deformation_gradient |-> F, distribution_tensor |-> mu,
         temperature |-> temperature]

\* The q-function at quadrature point (e, q): the displacement gradient is
\* the first active argument, the temperature the last one.
qf_state(I, inE, e, q, state) ==
    LET a == I.active_trial_spaces
    IN  BrighentiMechanical(inE[a[1]][e][q], state, inE[a[Len(a)]][e][q])

\* The state every evaluation would start from if none were carried over.
StateAtConstruction(I, e, q) == InitialState

\* The state the q-function is handed at quadrature point (e, q).
PersistedState(I, e, q) == I.qdata[e][q]

IntegralMultStateAlways(I, inE, update_state) ==
    [I EXCEPT !.qdata = [e \in Elems |-> [q \in EDofs |->
                            qf_state(I, inE, e, q, PersistedState(I, e, q))]]]

\* Integral::Mult, the quadrature-point state: the q-function works on the
\* state of each point and the result is kept when update_state is set.
IntegralMultState(I, inE, update_state) ==
    IF update_state
    THEN [I EXCEPT !.qdata = [e \in Elems |-> [q \in EDofs |->
                                qf_state(I, inE, e, q, PersistedState(I, e, q))]]]
    ELSE I

\* Integral::GradientMult
IntegralGradientMult(I, inEw, which) ==
    IF which \in Range(I.active_trial_spaces)
    THEN [e \in Elems |-> [d \in EDofs |->
            SumTo([c \in EDofs |-> I.dq[which][e][d][c] * inEw[e][c]], NumEDofs)]]
    ELSE ZeroE

----------------------------------------------------------------------------
(* Functional::operator()(DifferentiateWRT<wrt>, args...)                  *)

Ev(name, k, type, wrt) == [ev |-> name, k |-> k, type |-> type, wrt |-> wrt]

\* The members one call works on.
Members ==
    [ints |-> integrals_, inL |-> input_L_, outL |-> output_L_,
     bin |-> block_input_E_, bout |-> block_output_E_, trace |-> << >>,
     update_qdata |-> update_qdata]

\* bool already_computed[Integral::num_types][num_trial_spaces]{}
already_computed_init == [t \in IntegralTypes |-> [i \in TrialIdx |-> FALSE]]

MarkNothing(flags, type, i) == flags

\* already_computed[type][i] = true
MarkComputed(flags, type, i) == [flags EXCEPT ![type][i] = TRUE]

GatherOnce(c, type, i) ==
    IF ~c.flags[type][i]
    THEN [c EXCEPT !.bin[type][i] = Gather(c.inL[i]),
                   !.flags = MarkComputed(@, type, i),
                   !.trace = Append(@, Ev("Gather", i, type, -1))]
    ELSE c

\* for (auto i : integral.active_trial_spaces)
RECURSIVE GatherActive(_, _, _, _)
GatherActive(c, type, active, n) ==
    IF n > Len(active) THEN c
    ELSE GatherActive(GatherOnce(c, type, active[n]), type, active, n + 1)

EvaluateIntegralScatterFirst(c, k, wrt) ==
    LET I    == c.ints[k]
        type == I.type
        c1   == GatherActive(c, type, I.active_trial_spaces, 1)
        c2   == [c1 EXCEPT !.outL = ScatterAdd(IntegralMult(I, c1.bin[type]), @),
                           !.trace = Append(@, Ev("ScatterAdd", k, type, -1))]
    IN  [c2 EXCEPT !.bout[type] = IntegralMult(I, c1.bin[type]),
                   !.ints[k] = IntegralMultState(IntegralMultDerivative(I, c1.bin[type], wrt),
                                                 c1.bin[type], c.update_qdata),
                   !.trace = Append(@, Ev("Mult", k, type, wrt))]

\* One pass of the loop over integrals_: gather, Mult, ScatterAdd.
EvaluateIntegral(c, k, wrt) ==
    LET I    == c.ints[k]
        type == I.type
        c1   == GatherActive(c, type, I.active_trial_spaces, 1)
        c2   == [c1 EXCEPT !.bout[type] = IntegralMult(I, c1.bin[type]),
                           !.ints[k] = IntegralMultState(
                                           IntegralMultDerivative(I, c1.bin[type], wrt),
                                           c1.bin[type], c.update_qdata),
                           !.trace = Append(@, Ev("Mult", k, type, wrt))]
    IN  [c2 EXCEPT !.outL = ScatterAdd(c2.bout[type], @),
                   !.trace = Append(@, Ev("ScatterAdd", k, type, -1))]

RECURSIVE EvaluateIntegrals(_, _, _)
EvaluateIntegrals(c, k, wrt) ==
    IF k > Len(c.ints) THEN c
    ELSE EvaluateIntegrals(EvaluateIntegral(c, k, wrt), k + 1, wrt)

\* for (i = 0; i < num_trial_spaces; i++) P_trial_[i]->Mult(*input_T[i], input_L_[i])
RECURSIVE ProlongateTrials(_, _, _)
ProlongateTrials(c, i, input_T) ==
    IF i >= num_trial_spaces THEN c
    ELSE ProlongateTrials([c EXCEPT !.inL[i] = Prolongate(input_T[i]),
                                    !.trace = Append(@, Ev("P_trial", i, "none", -1))],
                          i + 1, input_T)

\* The reset left out: a sized output_L_ keeps the residual of the last call.
KeepOutput(prev) == IF prev = << >> THEN ZeroL ELSE prev

\* output_L_ = 0.0
ZeroOutput(prev) == ZeroL

\* The call on members m: the members after it, the stages run and output_T_.
operator_paren(m, wrt, input_T) ==
    LET c1 == ProlongateTrials(m, 0, input_T)
        c2 == [c1 EXCEPT !.outL = ZeroOutput(@)]
        c3 == EvaluateIntegrals([flags |-> already_computed_init] @@ c2, 1, wrt)
    IN  [ints |-> c3.ints, inL |-> c3.inL, outL |-> c3.outL, bin |-> c3.bin,
         bout |-> c3.bout, outT |-> ProlongateTranspose(c3.outL),
         trace |-> Append(c3.trace, Ev("P_test_T", 0, "none", -1))]

----------------------------------------------------------------------------
(* Functional::operator()(args...): the overload that finds the argument   *)
(* wrapped by differentiate_wrt.  matching[k] says whether argument k is   *)
(* a differentiate_wrt_this.                                               *)

RECURSIVE index_from(_, _)
index_from(matching, i) ==
    IF i >= Len(matching) THEN -1
    ELSE IF matching[i + 1] THEN i
    ELSE index_from(matching, i + 1)

index_of_differentiation_off_by_one(matching) ==
    LET i == index_from(matching, 0) IN IF i >= 0 THEN i + 1 ELSE i

index_of_differentiation(matching) == index_from(matching, 0)

num_differentiated_arguments(matching) ==
    Cardinality({k \in 1 .. Len(matching) : matching[k]})

\* The two static_asserts.
Compiles(matching) ==
    /\ num_differentiated_arguments(matching) <= 1
    /\ Len(matching) = num_trial_spaces

ArgLists == UNION {[1 .. n -> BOOLEAN] : n \in 1 .. (num_trial_spaces + 1)}

\* The argument lists of the evaluation specification.
EvalArgLists == [1 .. num_trial_spaces -> BOOLEAN]

\* The argument lists that compile and differentiate.
DifferentiatingArgLists ==
    {m \in EvalArgLists : num_differentiated_arguments(m) = 1}

\* return {output_T_, grad_[wrt]}: the index of the element referred to, or
\* "dangling" when grad_ has no such element.
ReturnedGradient(wrt) ==
    IF wrt < 0 THEN "none"
    ELSE IF wrt < Len(grad_) THEN wrt + 1
    ELSE "dangling"

\* The quadrature-point state of every Integral.
QData == [k \in 1 .. Len(integrals_) |-> integrals_[k].qdata]

Dispatch(matching, input_T) ==
    LET wrt == index_of_differentiation(matching)
        r   == operator_paren(Members, wrt, input_T)
    IN  /\ update_qdata =>
              \A k \in 1 .. Len(integrals_) :
                  integrals_[k].qdata[1][1].distribution_tensor.step < MaxUpdates
        /\ integrals_' = r.ints
        /\ input_L_' = r.inL
        /\ output_L_' = r.outL
        /\ block_input_E_' = r.bin
        /\ block_output_E_' = r.bout
        /\ output_T_' = r.outT
        /\ trace' = r.trace
        /\ call' = [accepted |-> TRUE, matching |-> matching, input_T |-> input_T,
                    wrt |-> wrt, gradient |-> ReturnedGradient(wrt),
                    update_qdata |-> update_qdata, qdata |-> QData]
        /\ dfdx' = IF wrt >= 0 THEN ReturnedGradient(wrt) ELSE dfdx
        /\ UNCHANGED << P_trial_, grad_, df_, col_ind_copy_, faulted, update_qdata, tables, order, Pure_vars >>

Rejected(matching) ==
    /\ call' = [accepted |-> FALSE, matching |-> matching]
    /\ trace' = << >>
    /\ UNCHANGED << integrals_, input_L_, output_L_, output_T_, block_input_E_,
                    block_output_E_, P_trial_, grad_, df_, col_ind_copy_, faulted,
                    dfdx, update_qdata, tables, order, Pure_vars >>

CallOperator(Lists, Inputs) ==
    /\ ~faulted
    /\ op' = "operator()"
    /\ \E matching \in Lists :
          IF Compiles(matching)
          THEN \E p \in Inputs : Dispatch(matching, TrialVectors(p))
          ELSE Rejected(matching)

----------------------------------------------------------------------------
(* Functional::ActionOfGradient(input_T, output_T, which)                  *)

\* bool already_computed[Integral::num_types]{}
already_computed_types == [t \in IntegralTypes |-> FALSE]

\* The pass that evaluates the Integral again before applying its derivative.
ActionIntegralRecomputing(c, k, which) ==
    LET I    == c.ints[k]
        type == I.type
        c1   == [c EXCEPT !.bin[type][which] = Gather(c.inL[which]),
                          !.trace = Append(@, Ev("Gather", which, type, -1))]
        c2   == [c1 EXCEPT !.trace = Append(@, Ev("Mult", k, type, which))]
        c3   == [c2 EXCEPT !.bout[type] = IntegralGradientMult(I, c2.bin[type][which], which),
                           !.trace = Append(@, Ev("GradientMult", k, type, which))]
    IN  [c3 EXCEPT !.outL = ScatterAdd(c3.bout[type], @),
                   !.trace = Append(@, Ev("ScatterAdd", k, type, -1))]

\* One pass of the loop over integrals_: gather, GradientMult, ScatterAdd.
\* The pass with a GradientMult that leaves the output buffer as it was when
\* the Integral does not depend on the argument.
ActionIntegralKeepingOutput(c, k, which) ==
    LET I    == c.ints[k]
        type == I.type
        c1   == IF ~c.flags[type]
                THEN [c EXCEPT !.bin[type][which] = Gather(c.inL[which]),
                               !.flags[type] = TRUE,
                               !.trace = Append(@, Ev("Gather", which, type, -1))]
                ELSE c
        c2   == [c1 EXCEPT !.bout[type] =
                                IF which \in Range(I.active_trial_spaces)
                                THEN IntegralGradientMult(I, c1.bin[type][which], which)
                                ELSE @,
                           !.trace = Append(@, Ev("GradientMult", k, type, which))]
    IN  [c2 EXCEPT !.outL = ScatterAdd(c2.bout[type], @),
                   !.trace = Append(@, Ev("ScatterAdd", k, type, -1))]

ActionIntegral(c, k, which) ==
    LET I    == c.ints[k]
        type == I.type
        c1   == IF ~c.flags[type]
                THEN [c EXCEPT !.bin[type][which] = Gather(c.inL[which]),
                               !.flags[type] = TRUE,
                               !.trace = Append(@, Ev("Gather", which, type, -1))]
                ELSE c
        c2   == [c1 EXCEPT !.bout[type] = IntegralGradientMult(I, c1.bin[type][which], which),
                           !.trace = Append(@, Ev("GradientMult", k, type, which))]
    IN  [c2 EXCEPT !.outL = ScatterAdd(c2.bout[type], @),
                   !.trace = Append(@, Ev("ScatterAdd", k, type, -1))]

RECURSIVE ActionIntegrals(_, _, _)
ActionIntegrals(c, k, which) ==
    IF k > Len(c.ints) THEN c
    ELSE ActionIntegrals(ActionIntegral(c, k, which), k + 1, which)

\* The call on members m: the members after it, the stages run and output_T.
ActionOfGradient(m, input_T, which) ==
    LET c1 == [m EXCEPT !.inL[which] = Prolongate(input_T),
                        !.trace = Append(@, Ev("P_trial", which, "none", -1)),
                        !.outL = ZeroL]
        c2 == ActionIntegrals([flags |-> already_computed_types] @@ c1, 1, which)
    IN  [ints |-> c2.ints, inL |-> c2.inL, outL |-> c2.outL, bin |-> c2.bin,
         bout |-> c2.bout, outT |-> ProlongateTranspose(c2.outL),
         trace |-> Append(c2.trace, Ev("P_test_T", 0, "none", -1))]

----------------------------------------------------------------------------
(* GradientAssemblyLookupTables(test space, trial space): the sparsity of   *)
(* the local matrix, one nonzero per pair of dofs that share an element.   *)

RowCols(r) ==
    {c \in LDofs : \E e \in Elems : \E d, d2 \in EDofs :
                      elem_dofs[e][d] = r /\ elem_dofs[e][d2] = c}

RECURSIVE SortedSeq(_)
SortedSeq(S) ==
    IF S = {} THEN << >>
    ELSE LET m == CHOOSE x \in S : \A y \in S : x <= y
         IN  <<m>> \o SortedSeq(S \ {m})

RECURSIVE ColIndFrom(_)
ColIndFrom(r) ==
    IF r > NumLDofs THEN << >> ELSE SortedSeq(RowCols(r)) \o ColIndFrom(r + 1)

lookup_tables ==
    [row_ptr |-> [r \in 1 .. (NumLDofs + 1) |->
                    SumTo([q \in LDofs |-> Cardinality(RowCols(q))], r - 1)],
     col_ind |-> ColIndFrom(1),
     nnz     |-> Len(ColIndFrom(1))]

\* element_nonzero_LUT(e, j, i): the slot of (test dof i, trial dof j) of
\* element e in the value array, and its orientation sign.
element_nonzero_LUT(e, j, i) ==
    LET r == elem_dofs[e][i]
        c == elem_dofs[e][j]
    IN  [index |-> CHOOSE k \in 1 .. lookup_tables.nnz :
                      /\ k > lookup_tables.row_ptr[r]
                      /\ k <= lookup_tables.row_ptr[r + 1]
                      /\ lookup_tables.col_ind[k] = c,
         sign  |-> elem_sign[e][i] * elem_sign[e][j]]

\* The row of slot k.
RowOf(row_ptr, k) == CHOOSE r \in LDofs : row_ptr[r] < k /\ k <= row_ptr[r + 1]

\* The column indices with the diagonal entry of every row moved to the front
\* of its row.
DiagonalFirst(row_ptr, col_ind) ==
    [k \in 1 .. Len(col_ind) |->
        LET r    == RowOf(row_ptr, k)
            lo   == row_ptr[r] + 1
            diag == {d \in lo .. row_ptr[r + 1] : col_ind[d] = r}
        IN  IF diag = {} THEN col_ind[k]
            ELSE LET d == CHOOSE x \in diag : TRUE
                 IN  IF k = lo THEN r
                     ELSE IF k <= d THEN col_ind[k - 1]
                     ELSE col_ind[k]]

\* mfem::HypreParMatrix(..., &J_local): what construction may leave in the
\* column index array the SparseMatrix borrows.
HypreParMatrix(row_ptr, col_ind) == {col_ind, DiagonalFirst(row_ptr, col_ind)}

\* The SparseMatrix borrowing the column indices of the table itself.
BorrowColInd(t) == [handed |-> t.col_ind, copied |-> FALSE]

\* col_ind_copy_ = lookup_tables.col_ind
CopyColInd(t) == [handed |-> t.col_ind, copied |-> TRUE]

\* Entry (r, c) of mfem::SparseMatrix(row_ptr, col_ind, values, ...).
SparseEntry(row_ptr, col_ind, values, r, c) ==
    SumTo([k \in 1 .. Len(values) |->
              IF k > row_ptr[r] /\ k <= row_ptr[r + 1] /\ col_ind[k] = c
              THEN values[k] ELSE 0], Len(values))

\* mfem::RAP(R, A, P) with R and P the dof -> true dof matrices.
RAP(row_ptr, col_ind, values) ==
    [t \in TDofs |-> [u \in TDofs |->
        SumTo([r \in LDofs |->
                 SumTo([c \in LDofs |->
                          IF dof_truedof[r] = t /\ dof_truedof[c] = u
                          THEN SparseEntry(row_ptr, col_ind, values, r, c) ELSE 0],
                       NumLDofs)], NumLDofs)]]

MatVec(K, x) == [t \in TDofs |-> SumTo([u \in TDofs |-> K[t][u] * x[u]], Cardinality(TDofs))]

\* Gradient::assemble: double* values = new double[nnz]{}; the loops that add
\* the element gradients into values are commented out.
assemble_values == [k \in 1 .. lookup_tables.nnz |-> 0]

assemble(col_ind_copy) == RAP(lookup_tables.row_ptr, col_ind_copy, assemble_values)

----------------------------------------------------------------------------
(* Gradient: the operations on the reference the caller holds.  A reference *)
(* to an element grad_ does not have can stand for any argument.            *)

which_argument(g) ==
    IF g = "dangling" THEN TrialIdx ELSE {grad_[g].which_argument}

ApplyAction(r) ==
    /\ integrals_' = r.ints
    /\ input_L_' = r.inL
    /\ output_L_' = r.outL
    /\ block_input_E_' = r.bin
    /\ block_output_E_' = r.bout
    /\ trace' = r.trace

\* A Mult that computes into the member df_ and copies it out to the caller.
GradientMultThroughMember ==
    /\ ~faulted
    /\ dfdx # "none"
    /\ \E which \in which_argument(dfdx), dx \in TVecs :
          LET r == ActionOfGradient(Members, dx, which)
          IN  /\ ApplyAction(r)
              /\ df_' = [df_ EXCEPT ![which] = r.outT]
              /\ call' = [accepted |-> TRUE, which |-> which, dx |-> dx, df |-> r.outT,
                          qdata |-> QData]
    /\ op' = "Gradient::Mult"
    /\ UNCHANGED << output_T_, P_trial_, grad_, col_ind_copy_, faulted, dfdx, update_qdata, tables, order, Pure_vars >>

\* Gradient::Mult(dx, df)
GradientMult ==
    /\ ~faulted
    /\ dfdx # "none"
    /\ \E which \in which_argument(dfdx), dx \in TVecs :
          LET r == ActionOfGradient(Members, dx, which)
          IN  /\ ApplyAction(r)
              /\ call' = [accepted |-> TRUE, which |-> which, dx |-> dx, df |-> r.outT,
                          qdata |-> QData]
    /\ op' = "Gradient::Mult"
    /\ UNCHANGED << output_T_, P_trial_, grad_, df_, col_ind_copy_, faulted, dfdx, update_qdata, tables, order, Pure_vars >>

\* Gradient::operator()(dx)
GradientCall ==
    /\ ~faulted
    /\ dfdx # "none"
    /\ \E which \in which_argument(dfdx), dx \in TVecs :
          LET r == ActionOfGradient(Members, dx, which)
          IN  /\ ApplyAction(r)
              /\ df_' = [df_ EXCEPT ![which] = r.outT]
              /\ call' = [accepted |-> TRUE, which |-> which, dx |-> dx, df |-> r.outT,
                          qdata |-> QData]
    /\ op' = "Gradient::operator()"
    /\ UNCHANGED << output_T_, P_trial_, grad_, col_ind_copy_, faulted, dfdx, update_qdata, tables, order, Pure_vars >>

\* Gradient::assemble()
GradientAssemble ==
    /\ ~faulted
    /\ dfdx # "none"
    /\ \E which \in which_argument(dfdx) :
          LET t == tables[which]
              h == CopyColInd(t)
          IN  \E m \in HypreParMatrix(t.row_ptr, h.handed) :
                /\ col_ind_copy_' = [col_ind_copy_ EXCEPT ![which] =
                                        IF h.copied THEN m ELSE @]
                /\ tables' = [tables EXCEPT ![which].col_ind =
                                 IF h.copied THEN @ ELSE m]
                /\ call' = [accepted |-> TRUE, which |-> which,
                            values |-> assemble_values,
                            K |-> assemble(h.handed),
                            again |-> col_ind_copy_[which] # << >>]
    /\ op' = "Gradient::assemble"
    /\ trace' = << >>
    /\ UNCHANGED << integrals_, input_L_, output_L_, output_T_, block_input_E_,
                    block_output_E_, P_trial_, grad_, df_, faulted, dfdx, update_qdata,
                    order, Pure_vars >>

\* The caller assigns the public member update_qdata.
SetUpdateQdata ==
    /\ ~faulted
    /\ \E b \in BOOLEAN :
          /\ b # update_qdata
          /\ update_qdata' = b
    /\ op' = "update_qdata"
    /\ call' = [accepted |-> TRUE]
    /\ trace' = << >>
    /\ UNCHANGED << integrals_, input_L_, output_L_, output_T_, block_input_E_,
                    block_output_E_, P_trial_, grad_, df_, col_ind_copy_, faulted,
                    dfdx, tables, order, Pure_vars >>

\* P_trial_[i]->Mult through a pointer the constructor never set.
Fault ==
    /\ ~faulted
    /\ \E i \in TrialIdx : P_trial_[i] = "unset"
    /\ faulted' = TRUE
    /\ op' = "fault"
    /\ call' = [accepted |-> FALSE]
    /\ trace' = << >>
    /\ UNCHANGED << integrals_, input_L_, output_L_, output_T_, block_input_E_,
                    block_output_E_, P_trial_, grad_, df_, col_ind_copy_, dfdx, update_qdata, tables, order, Pure_vars >>

----------------------------------------------------------------------------
(* EVectorView<exec, element_types...> (evector_view.hpp).  Indices and     *)
(* offsets count from 0 as in the source; an array is a function over its  *)
(* offsets.                                                                *)

\* sizeof...(element_types)
n_element_types == 2

\* element_type::components and element_type::ndof
ElementTypes == {[components |-> c, ndof |-> d] : c \in 1 .. 2, d \in 1 .. 2}

\* The E-vectors handed over: distinct values, so that a value tells its offset.
EArray(base, len) == [k \in 0 .. (len - 1) |-> base + k]

EArrayBases == {100, 200}

\* ExecArrayView(ptr, dimensions...)
ExecArrayView(ptr, shape) == [ptr |-> ptr, shape |-> shape]

\* Offset of an index tuple in an array of the given shape, last index fastest.
RECURSIVE LinearOffset(_, _, _)
LinearOffset(shape, idx, d) ==
    IF d = 1 THEN idx[1]
    ELSE LinearOffset(shape, idx, d - 1) * shape[d] + idx[d]

\* The element of element 0 at the same place.
view_at_first_element(arr, idx) ==
    arr.ptr[LinearOffset(arr.shape, [idx EXCEPT ![1] = 0], Len(idx))]

\* arr(i, j, ...)
view_at(arr, idx) == arr.ptr[LinearOffset(arr.shape, idx, Len(idx))]

ArrayViewForElement(ptr, num_elements, element_type) ==
    IF element_type.components = 1
    THEN ExecArrayView(ptr, <<num_elements, element_type.ndof>>)
    ELSE ExecArrayView(ptr, <<num_elements, element_type.components, element_type.ndof>>)

\* EVectorView::operator[](e): one tensor per element type.
EVectorView_index(types, data, e) ==
    [I \in 1 .. n_element_types |->
        LET ndof       == types[I].ndof
            components == types[I].components
            arr        == data[I]
        IN  IF components = 1
            THEN [i \in 0 .. (ndof - 1) |-> view_at(arr, <<e, i>>)]
            ELSE [j \in 0 .. (components - 1) |->
                    [i \in 0 .. (ndof - 1) |-> view_at(arr, <<e, j, i>>)]]]

ESize(num_elements, element_type) ==
    num_elements * element_type.components * element_type.ndof

\* EVectorView(pointers, num_elements)
EVectorView_ctor ==
    \E types \in [1 .. n_element_types -> ElementTypes], num_elements \in 1 .. 2,
       base \in EArrayBases :
        evector = [made |-> TRUE, types |-> types, num_elements |-> num_elements,
                   data |-> [I \in 1 .. n_element_types |->
                               ArrayViewForElement(
                                   EArray(base + 10 * I, ESize(num_elements, types[I])),
                                   num_elements, types[I])],
                   e |-> -1, values |-> << >>]

\* EVectorView::UpdatePointers(pointers)
UpdatePointers ==
    /\ evector.made
    /\ \E base \in EArrayBases :
          evector' = [evector EXCEPT
                        !.data = [I \in 1 .. n_element_types |->
                                    [@[I] EXCEPT !.ptr =
                                        EArray(base + 10 * I,
                                               ESize(evector.num_elements, evector.types[I]))]],
                        !.e = -1, !.values = << >>]
    /\ evector' # evector
    /\ UNCHANGED << Functional_vars, adj, ad, Aux_vars >>

\* EVectorView::operator[](e)
EVectorIndex ==
    /\ evector.made
    /\ \E e \in 0 .. (evector.num_elements - 1) :
          evector' = [evector EXCEPT !.e = e,
                                     !.values = EVectorView_index(evector.types, evector.data, e)]
    /\ UNCHANGED << Functional_vars, adj, ad, Aux_vars >>

----------------------------------------------------------------------------
(* Dual numbers and tensors (tensor_unit_tests.cpp).  A double x is kept as *)
(* the integer 2x: every value met is a multiple of 1/2.  A dual number is  *)
(* a value with a gradient, one entry per component of the argument that   *)
(* make_dual wrapped; a plain double has no gradient entries.              *)

dim == 3

Idx == 0 .. (dim - 1)

delta(i, j) == IF i = j THEN 1 ELSE 0

\* The double with the integer value x.
D(x) == 2 * x

Half(x) == x \div 2

dual(value, gradient) == [value |-> value, gradient |-> gradient]

double(x) == dual(x, << >>)

\* Entry s of the gradient of a, zero where a does not depend on the argument.
grad_entry(a, s) == IF s \in DOMAIN a.gradient THEN a.gradient[s] ELSE 0

Seeds(a, b) == (DOMAIN a.gradient) \cup (DOMAIN b.gradient)

\* a + b
dual_plus(a, b) ==
    dual(a.value + b.value, [s \in Seeds(a, b) |-> grad_entry(a, s) + grad_entry(b, s)])

\* a - b
dual_minus(a, b) ==
    dual(a.value - b.value, [s \in Seeds(a, b) |-> grad_entry(a, s) - grad_entry(b, s)])

dual_times_left_only(a, b) ==
    dual(Half(a.value * b.value), [s \in Seeds(a, b) |-> Half(grad_entry(a, s) * b.value)])

\* a * b
dual_times(a, b) ==
    dual(Half(a.value * b.value),
         [s \in Seeds(a, b) |->
             Half(grad_entry(a, s) * b.value + a.value * grad_entry(b, s))])

\* make_dual(x) of a double, a tensor<double, 3> and a tensor<double, 3, 3>
make_dual_scalar(x) == dual(x, [s \in {<< >>} |-> D(1)])

make_dual_vector(v) ==
    [i \in Idx |-> dual(v[i], [s \in {<<k>> : k \in Idx} |-> D(delta(i, s[1]))])]

make_dual_tensor(A) ==
    [i \in Idx |-> [j \in Idx |->
        dual(A[i][j], [s \in {<<k, l>> : k, l \in Idx} |->
                          D(delta(i, s[1]) * delta(j, s[2]))])]]

\* A tensor of doubles as the arithmetic sees it.
plain_vector(v) == [i \in Idx |-> double(v[i])]

plain_tensor(A) == [i \in Idx |-> [j \in Idx |-> double(A[i][j])]]

\* Identity<3>()
Identity == [i \in Idx |-> [j \in Idx |-> double(D(delta(i, j)))]]

tr(A) == dual_plus(dual_plus(A[0][0], A[1][1]), A[2][2])

sym_without_half(A) == [i \in Idx |-> [j \in Idx |-> dual_plus(A[i][j], A[j][i])]]

\* sym(A) = 0.5 * (A + transpose(A))
sym(A) ==
    [i \in Idx |-> [j \in Idx |-> dual_times(double(1), dual_plus(A[i][j], A[j][i]))]]

outer(u, v) == [i \in Idx |-> [j \in Idx |-> dual_times(u[i], v[j])]]

\* scalar * tensor, tensor + tensor, tensor - tensor
scale(c, A) == [i \in Idx |-> [j \in Idx |-> dual_times(c, A[i][j])]]

tensor_plus(A, B) == [i \in Idx |-> [j \in Idx |-> dual_plus(A[i][j], B[i][j])]]

tensor_minus(A, B) == [i \in Idx |-> [j \in Idx |-> dual_minus(A[i][j], B[i][j])]]

get_value(A) == [i \in Idx |-> [j \in Idx |-> A[i][j].value]]

get_gradient(A) == [i \in Idx |-> [j \in Idx |-> A[i][j].gradient]]

\* double_dot(C, A) of a fourth-order tensor of doubles with a tensor of doubles
double_dot(C, A) ==
    [i \in Idx |-> [j \in Idx |->
        SumTo([n \in 1 .. (dim * dim) |->
                  LET k == (n - 1) \div dim
                      l == (n - 1) % dim
                  IN  Half(C[i][j][k][l] * A[k][l])], dim * dim)]]

\* TEST(tensor, elasticity): sigma = lambda * tr(epsilon) * I + 2.0 * mu * epsilon
elasticity_sigma(lambda, mu, epsilon) ==
    tensor_plus(scale(dual_times(double(D(lambda)), tr(epsilon)), Identity),
                scale(dual_times(double(D(2)), double(D(mu))), epsilon))

\* tensor C = make_tensor<3, 3, 3, 3>(...)
elasticity_C(lambda, mu) ==
    [i \in Idx |-> [j \in Idx |-> [k \in Idx |-> [l \in Idx |->
        D(lambda * delta(i, j) * delta(k, l)
            + mu * (delta(i, k) * delta(j, l) + delta(i, l) * delta(j, k)))]]]]

\* TEST(tensor, navier_stokes): rho, mu and
\* sigma = rho * outer(v, v) + 2.0 * mu * sym(L) - p * I
rho == 3

mu_ns == 2

navier_stokes_sigma(p, v, L) ==
    tensor_minus(
        tensor_plus(scale(double(D(rho)), outer(v, v)),
                    scale(dual_times(double(D(2)), double(D(mu_ns))), sym(L))),
        scale(p, Identity))

\* The arguments of the tests, as integers.
Lambdas == {5, 2, 0}

Mus == {3, 1}

Tensors ==
    { [i \in Idx |-> [j \in Idx |-> i + 2 * j]],
      [i \in Idx |-> [j \in Idx |-> 3 * i + j + 1]],
      [i \in Idx |-> [j \in Idx |-> delta(i, j)]],
      [i \in Idx |-> [j \in Idx |-> i * j - 1]] }

Vectors == { [i \in Idx |-> i + 1], [i \in Idx |-> 2 - 3 * i] }

Pressures == {3, -1, 0}

DualInit ==
    \/ \E lambda \in Lambdas, mu \in Mus, grad_u \in Tensors :
          ad = [test |-> "elasticity", done |-> FALSE, lambda |-> lambda, mu |-> mu,
                grad_u |-> grad_u]
    \/ \E p \in Pressures, v \in Vectors, L \in Tensors :
          ad = [test |-> "navier_stokes", done |-> FALSE, p |-> p, v |-> v, L |-> L]

\* The body of TEST(tensor, elasticity)
Elasticity ==
    /\ ad.test = "elasticity"
    /\ ~ad.done
    /\ LET grad_u  == [i \in Idx |-> [j \in Idx |-> D(ad.grad_u[i][j])]]
           epsilon == sym(make_dual_tensor(grad_u))
       IN  ad' = [done |-> TRUE,
                  C_epsilon |-> double_dot(elasticity_C(ad.lambda, ad.mu),
                                           get_value(sym(plain_tensor(grad_u)))),
                  sigma |-> get_value(elasticity_sigma(ad.lambda, ad.mu,
                                                       sym(plain_tensor(grad_u)))),
                  dsigma_depsilon |->
                      get_gradient(elasticity_sigma(ad.lambda, ad.mu, epsilon))] @@ ad
    /\ UNCHANGED << Functional_vars, adj, evector, Aux_vars >>

\* One block of TEST(tensor, navier_stokes): the pass that wraps one argument.
NavierStokes ==
    /\ ad.test = "navier_stokes"
    /\ ~ad.done
    /\ \E seed \in {"p", "v", "L"} :
          LET p == D(ad.p)
              v == [i \in Idx |-> D(ad.v[i])]
              L == [i \in Idx |-> [j \in Idx |-> D(ad.L[i][j])]]
          IN  ad' = [done |-> TRUE,
                     seed |-> seed,
                     ad   |-> get_gradient(navier_stokes_sigma(
                                 IF seed = "p" THEN make_dual_scalar(p) ELSE double(p),
                                 IF seed = "v" THEN make_dual_vector(v) ELSE plain_vector(v),
                                 IF seed = "L" THEN make_dual_tensor(L) ELSE plain_tensor(L)))]
                        @@ ad
    /\ UNCHANGED << Functional_vars, adj, evector, Aux_vars >>

----------------------------------------------------------------------------
(* BrighentiMechanical::BrighentiMechanical (liquid_crystal_elastomer.hpp)  *)

\* Values of a double parameter: negative, zero and positive.
Parameters == {-1, 0, 1}

\* The comparison of the checks with < in place of <=.
Negative(x) == x < 0

\* density_ <= 0.0 and the like
NonPositive(x) == x <= 0

\* The body of the constructor: five checks in this order, each ending the
\* construction with its message.
BrighentiChecks(density_, shear_modulus_, bulk_modulus_, order_constant_, transition_temperature_) ==
    SLIC_ERROR_ROOT_IF(NonPositive(density_),
        "Density must be positive in the LCE material model.",
    SLIC_ERROR_ROOT_IF(NonPositive(shear_modulus_),
        "Shear modulus must be positive in the LCE material model.",
    SLIC_ERROR_ROOT_IF(NonPositive(bulk_modulus_),
        "Bulk modulus must be positive in the LCE material model.",
    SLIC_ERROR_ROOT_IF(NonPositive(order_constant_),
        "Order constant must be positive in the LCE material model.",
    SLIC_ERROR_ROOT_IF(NonPositive(transition_temperature_),
        "The transition temperature must be positive in the LCE material model.",
        [err |-> "none"])))))

\* The arguments of one construction.
LceInit ==
    lce \in [constructed : {FALSE}, density : Parameters, shear_modulus : Parameters,
             bulk_modulus : Parameters, order_constant : Parameters,
             transition_temperature : Parameters]

BrighentiMechanical_ctor ==
    /\ ~lce.constructed
    /\ lce' = [constructed |-> TRUE,
               err |-> BrighentiChecks(lce.density, lce.shear_modulus, lce.bulk_modulus,
                                       lce.order_constant,
                                       lce.transition_temperature).err] @@ lce
    /\ UNCHANGED << Functional_vars, adj, evector, ad, cli, dco, drv >>

----------------------------------------------------------------------------
(* serac::cli::defineAndParse (cli.cpp)                                     *)

\* Files that exist and paths that name no file.
ExistingFiles == {"input.lua", "other.lua"}

MissingFiles == {"missing.lua", "absent.lua"}

\* The command line: whether -h/--help is given, the path given with
\* -i/--input_file ("" when the option is not given), whether an unknown
\* argument is given.
CommandLines ==
    [help : BOOLEAN, input_file : {""} \cup ExistingFiles \cup MissingFiles,
     extras : BOOLEAN]

Ranks == 0 .. 2

\* CLI::ExistingFile
ExistingFile(path) == path \in ExistingFiles

\* app.parse(argc, argv) of an App with the one option
\* add_option("-i, --input_file", input_file_path)->required()->check(CLI::ExistingFile):
\* the exceptions it can throw ("none" when it returns) and the value it
\* leaves in input_file_path.  The check runs when the option's value is
\* stored; whether that is before or after the help flag is looked at depends
\* on the CLI11 release.
app_parse(argv) ==
    LET failed_check == argv.input_file # "" /\ ~ExistingFile(argv.input_file)
        stored       == IF argv.input_file # "" /\ ~failed_check
                        THEN argv.input_file ELSE ""
    IN  IF argv.help
        THEN {[thrown |-> "CallForHelp", input_file_path |-> stored]}
             \cup (IF failed_check
                   THEN {[thrown |-> "ValidationError", input_file_path |-> ""]}
                   ELSE {})
        ELSE IF failed_check
        THEN {[thrown |-> "ValidationError", input_file_path |-> ""]}
        ELSE IF argv.input_file = ""
        THEN {[thrown |-> "RequiredError", input_file_path |-> ""]}
        ELSE IF argv.extras
        THEN {[thrown |-> "ExtrasError", input_file_path |-> stored]}
        ELSE {[thrown |-> "none", input_file_path |-> stored]}

\* SLIC_INFO_ROOT(rank, msg) and SLIC_ERROR_ROOT(rank, msg): the message is
\* logged by rank 0 only.
SLIC_ROOT(rank, level, msg, log) ==
    IF rank = 0 THEN Append(log, [level |-> level, msg |-> msg]) ELSE log

\* The body of defineAndParse for one outcome of app.parse.
defineAndParse(rank, p) ==
    IF p.thrown = "CallForHelp"
    THEN [pc |-> "exited", log |-> SLIC_ROOT(rank, "info", "help", << >>)]
    ELSE IF p.thrown # "none" /\ rank = 0
    THEN [pc |-> "aborted", log |-> SLIC_ROOT(rank, "error", p.thrown, << >>)]
    ELSE [pc |-> "returned",
          log |-> IF p.thrown # "none" THEN SLIC_ROOT(rank, "error", p.thrown, << >>)
                  ELSE << >>,
          cli_opts |-> [key \in {"input_file"} |-> p.input_file_path]]

\* One process about to call defineAndParse.
CliInit == cli \in [pc : {"called"}, argv : CommandLines, rank : Ranks]

DefineAndParse ==
    /\ cli.pc = "called"
    /\ \E p \in app_parse(cli.argv) :
          cli' = ([thrown |-> p.thrown] @@ defineAndParse(cli.rank, p)) @@ cli
    /\ UNCHANGED << Functional_vars, adj, evector, ad, lce, dco, drv >>

----------------------------------------------------------------------------
(* DynamicConductionOperator (thermal_operators.cpp).  The matrices and     *)
(* vectors handed over through shared pointers and references are objects  *)
(* of the caller: dco.vectors holds the caller's vectors by name.  Doubles  *)
(* take integer values.                                                     *)

TrueDofs == 1 .. 2

\* A shared pointer to a matrix that refers to none.
nullptr == << >>

ZeroVector == [i \in TrueDofs |-> 0]

\* The time steps of the calls; -1 is the value m_old_dt starts with.
Dts == {-1, 1, 2}

\* The mass and stiffness matrices the caller sets, each with the part
\* eliminated from it.
MMatrices ==
    { [mat |-> << <<4, 0>>, <<0, 4>> >>, e_mat |-> << <<0, 1>>, <<1, 0>> >>],
      [mat |-> << <<2, 0>>, <<0, 2>> >>, e_mat |-> << <<0, 1>>, <<1, 0>> >>] }

KMatrices ==
    { [mat |-> << <<2, 0>>, <<0, 2>> >>, e_mat |-> << <<0, -1>>, <<-1, 0>> >>],
      [mat |-> << <<3, 0>>, <<0, 3>> >>, e_mat |-> << <<0, -2>>, <<-2, 0>> >>] }

\* The caller's load vectors and state vectors, and the vector it receives
\* du_dt in.
LoadVectors == {"b1", "b2"}

StateVectors == {"u1", "u2"}

CallerVectors ==
    [b1 |-> <<1, 2>>, b2 |-> <<3, 0>>, u1 |-> <<1, 1>>, u2 |-> <<2, 5>>,
     du_dt |-> ZeroVector]

\* The essential boundary conditions the caller sets: the coefficient ("null"
\* for none) and the essential true dofs.
EssentialBCs ==
    { [coef |-> "null", tdofs |-> {}], [coef |-> "null", tdofs |-> {1}],
      [coef |-> "g", tdofs |-> {1}], [coef |-> "g", tdofs |-> {2}] }

\* The value of the coefficient g on the boundary.
Eval(coef) == 7

\* mfem::Add(a, A, b, B)
Add(a, A, b, B) == [i \in TrueDofs |-> [j \in TrueDofs |-> a * A[i][j] + b * B[i][j]]]

\* A.Mult(x, y)
MatMult(A, x) ==
    [i \in TrueDofs |-> SumTo([j \in TrueDofs |-> A[i][j] * x[j]], 2)]

\* HypreParMatrix::EliminateRowsCols(rows_cols): the off-diagonal entries of
\* the listed rows and columns move to the returned matrix.
EliminateRowsCols(A, rows_cols) ==
    LET kept == [i \in TrueDofs |-> [j \in TrueDofs |->
                    IF i # j /\ (i \in rows_cols \/ j \in rows_cols) THEN 0 ELSE A[i][j]]]
    IN  [A |-> kept, Ae |-> Add(1, A, -1, kept)]

\* mfem::EliminateBC(A, Ae, ess_dof_list, X, B): the new B.
EliminateBC(A, Ae, ess_dof_list, X, B) ==
    LET AeX == MatMult(Ae, X)
    IN  [i \in TrueDofs |-> IF i \in ess_dof_list THEN A[i][i] * X[i] ELSE B[i] - AeX[i]]

\* SetFromTrueDofs, ProjectBdrCoefficient, GetTrueDofs: the essential dofs
\* take the value of the coefficient.
ProjectBdrCoefficient(y, coef, tdofs) ==
    [i \in TrueDofs |-> IF i \in tdofs THEN Eval(coef) ELSE y[i]]

\* z = -K y + bc_rhs
Residual(K, y, bc_rhs) ==
    LET Ky == MatMult(K, y) IN [i \in TrueDofs |-> bc_rhs[i] - Ky[i]]

\* DynamicConductionOperator::DynamicConductionOperator.  m_z, m_y, m_x and
\* m_bc_rhs are allocated with unspecified contents; every call writes them
\* before it reads them.
DynamicConductionOperator_ctor ==
    dco = [constructed |-> TRUE, op |-> "DynamicConductionOperator", failed |-> FALSE,
           m_M_mat |-> nullptr, m_M_e_mat |-> nullptr, m_K_mat |-> nullptr,
           m_K_e_mat |-> nullptr, m_rhs |-> "null", m_ess_bdr_coef |-> "null",
           m_ess_tdof_list |-> {}, m_y |-> ZeroVector, m_z |-> ZeroVector,
           m_x |-> ZeroVector, m_bc_rhs |-> ZeroVector, m_old_dt |-> -1,
           m_T_mat |-> nullptr, m_T_e_mat |-> nullptr,
           M_solver |-> [oper |-> nullptr], T_solver |-> [oper |-> nullptr],
           vectors |-> CallerVectors, call |-> [accepted |-> TRUE]]

DcoFrame == UNCHANGED << Functional_vars, adj, evector, ad, lce, cli, drv >>

SetMMatrix ==
    /\ dco.constructed /\ ~dco.failed
    /\ \E M \in MMatrices :
          dco' = [dco EXCEPT !.m_M_mat = M.mat, !.m_M_e_mat = M.e_mat,
                             !.op = "SetMMatrix", !.call = [accepted |-> TRUE]]
    /\ DcoFrame

SetKMatrix ==
    /\ dco.constructed /\ ~dco.failed
    /\ \E K \in KMatrices :
          dco' = [dco EXCEPT !.m_K_mat = K.mat, !.m_K_e_mat = K.e_mat,
                             !.op = "SetKMatrix", !.call = [accepted |-> TRUE]]
    /\ DcoFrame

SetLoadVector ==
    /\ dco.constructed /\ ~dco.failed
    /\ \E rhs \in LoadVectors :
          dco' = [dco EXCEPT !.m_rhs = rhs,
                             !.op = "SetLoadVector", !.call = [accepted |-> TRUE]]
    /\ DcoFrame

SetEssentialBCs ==
    /\ dco.constructed /\ ~dco.failed
    /\ \E bc \in EssentialBCs :
          dco' = [dco EXCEPT !.m_ess_bdr_coef = bc.coef, !.m_ess_tdof_list = bc.tdofs,
                             !.op = "SetEssentialBCs", !.call = [accepted |-> TRUE]]
    /\ DcoFrame

\* MFEM_ASSERT(m_M_mat != nullptr, ...), MFEM_ASSERT(m_K_mat != nullptr, ...)
\* and the dereference of m_rhs: without them the call ends the process.
DcoReady(d) == d.m_M_mat # nullptr /\ d.m_K_mat # nullptr /\ d.m_rhs # "null"

DcoFailed(d, name) ==
    [d EXCEPT !.op = name, !.failed = TRUE, !.call = [accepted |-> FALSE]]

\* CGSolver::Mult(b, x): x solves oper x = b.
SolverMult(solver, b) == [oper |-> solver.oper, b |-> b]

\* Mult with the boundary conditions eliminated in the load vector itself.
DcoMultInPlace(d, u) ==
    LET y      == d.vectors[u]
        bc_rhs == EliminateBC(d.m_K_mat, d.m_K_e_mat, d.m_ess_tdof_list, y,
                              d.vectors[d.m_rhs])
        z      == Residual(d.m_K_mat, y, bc_rhs)
        M      == [oper |-> d.m_M_mat]
    IN  [d EXCEPT !.op = "Mult", !.m_y = y, !.M_solver = M, !.m_bc_rhs = bc_rhs,
                  !.vectors[d.m_rhs] = bc_rhs, !.m_z = z,
                  !.call = [accepted |-> TRUE, u |-> u, du_dt |-> SolverMult(M, z)]]

\* DynamicConductionOperator::Mult(u, du_dt) on a ready operator.
DcoMult(d, u) ==
    LET y      == d.vectors[u]
        bc_rhs == EliminateBC(d.m_K_mat, d.m_K_e_mat, d.m_ess_tdof_list, y,
                              d.vectors[d.m_rhs])
        z      == Residual(d.m_K_mat, y, bc_rhs)
        M      == [oper |-> d.m_M_mat]
    IN  [d EXCEPT !.op = "Mult", !.m_y = y, !.M_solver = M, !.m_bc_rhs = bc_rhs,
                  !.m_z = z,
                  !.call = [accepted |-> TRUE, u |-> u, du_dt |-> SolverMult(M, z)]]

Mult ==
    /\ dco.constructed /\ ~dco.failed
    /\ \E u \in StateVectors :
          dco' = IF DcoReady(dco) THEN DcoMult(dco, u) ELSE DcoFailed(dco, "Mult")
    /\ DcoFrame

\* A T matrix built by the first call only.
FirstStep(dt, m_old_dt) == m_old_dt = -1

\* if (dt != m_old_dt)
NewStep(dt, m_old_dt) == dt # m_old_dt

\* DynamicConductionOperator::ImplicitSolve(dt, u, du_dt) on a ready operator.
DcoImplicitSolve(d, dt, u) ==
    LET rebuilt == NewStep(dt, d.m_old_dt)
        T       == EliminateRowsCols(Add(1, d.m_M_mat, dt, d.m_K_mat), d.m_ess_tdof_list)
        d1      == IF rebuilt
                   THEN [d EXCEPT !.m_T_mat = T.A, !.m_T_e_mat = T.Ae,
                                  !.T_solver = [oper |-> T.A]]
                   ELSE d
        bcs     == d.m_ess_bdr_coef # "null"
        y       == IF bcs
                   THEN ProjectBdrCoefficient(d.vectors[u], d.m_ess_bdr_coef,
                                              d.m_ess_tdof_list)
                   ELSE d.vectors[u]
        bc_rhs  == IF bcs
                   THEN EliminateBC(d.m_K_mat, d.m_K_e_mat, d.m_ess_tdof_list, y,
                                    d.vectors[d.m_rhs])
                   ELSE d.vectors[d.m_rhs]
        z       == Residual(d.m_K_mat, y, bc_rhs)
        d2      == [d1 EXCEPT !.m_y = y, !.m_bc_rhs = bc_rhs, !.m_x = ZeroVector,
                              !.m_z = z]
    IN  IF d2.T_solver.oper = nullptr
        THEN [d2 EXCEPT !.op = "ImplicitSolve", !.failed = TRUE,
                        !.call = [accepted |-> FALSE, dt |-> dt, u |-> u,
                                  rebuilt |-> rebuilt]]
        ELSE [d2 EXCEPT !.op = "ImplicitSolve", !.m_old_dt = dt,
                        !.call = [accepted |-> TRUE, dt |-> dt, u |-> u,
                                  rebuilt |-> rebuilt,
                                  du_dt |-> SolverMult(d2.T_solver, z)]]

ImplicitSolve ==
    /\ dco.constructed /\ ~dco.failed
    /\ \E dt \in Dts, u \in StateVectors :
          dco' = IF DcoReady(dco) THEN DcoImplicitSolve(dco, dt, u)
                 ELSE DcoFailed(dco, "ImplicitSolve")
    /\ DcoFrame

----------------------------------------------------------------------------
(* uniaxial_stress_test (test_material_driver.cpp).  Time is counted in    *)
(* units of dt, a diagonal tensor is the tuple of its diagonal, and the    *)
(* material is one whose state counts the updates made to it.              *)

\* size_t num_steps
MaxSteps == 3

\* The most calls of its function argument one find_root makes.
MaxEvals == 2

\* StateType initial_state
InitialStates == {0, 2}

\* std::function<double(double)> epsilon_xx
epsilon_xx(t) == t

\* The lateral strains find_root tries and returns.
Guesses == {<< 0, 0 >>, << -1, 0 >>, << -1, -1 >>}

\* material(x, u, du_dx, state, ...): the stress it returns and the state it
\* leaves in the argument it was given by reference.
material(du_dx, state) ==
    LET trace_ == du_dx[1] + du_dx[2] + du_dx[3]
    IN  [stress |-> << trace_ + du_dx[1] - state, trace_ + du_dx[2] - state,
                       trace_ + du_dx[3] - state >>,
         state  |-> state + 1]

\* The locals after output_history.reserve(num_steps).
DrvInit ==
    \E n \in 0 .. MaxSteps, s \in InitialStates :
        drv = [pc |-> "loop", num_steps |-> n, initial_state |-> s, i |-> 0,
               t |-> 0, state |-> s, copy |-> s, evals |-> 0, evaluations |-> 0,
               output_history |-> << >>, returned |-> << >>]

DrvFrame == UNCHANGED << Functional_vars, adj, evector, ad, lce, cli, dco >>

\* for (i < num_steps): t += dt, and find_root is entered.
StepBegin ==
    /\ drv.pc = "loop"
    /\ drv.i < drv.num_steps
    /\ drv' = [drv EXCEPT !.pc = "find_root", !.t = @ + 1, !.evals = 0]
    /\ DrvFrame

\* A call of sigma_yy_and_zz that works on the carried state itself.
RootEvaluationOnState ==
    /\ drv.pc = "find_root"
    /\ drv.evals < MaxEvals
    /\ \E x \in Guesses :
          LET du_dx  == << epsilon_xx(drv.t), x[1], x[2] >>
              output == material(du_dx, drv.state)
          IN  drv' = [drv EXCEPT !.state = output.state, !.copy = output.state,
                                 !.evals = @ + 1, !.evaluations = @ + 1]
    /\ DrvFrame

\* find_root calls sigma_yy_and_zz(x): auto copy = state; material(..., copy).
RootEvaluation ==
    /\ drv.pc = "find_root"
    /\ drv.evals < MaxEvals
    /\ \E x \in Guesses :
          LET du_dx  == << epsilon_xx(drv.t), x[1], x[2] >>
              copy   == drv.state
              output == material(du_dx, copy)
          IN  drv' = [drv EXCEPT !.copy = output.state, !.evals = @ + 1,
                                 !.evaluations = @ + 1]
    /\ DrvFrame

\* find_root returns; the material is called on state and the step recorded.
StepEnd ==
    /\ drv.pc = "find_root"
    /\ \E epsilon_yy_and_zz \in Guesses :
          LET dudx   == << epsilon_xx(drv.t), epsilon_yy_and_zz[1],
                           epsilon_yy_and_zz[2] >>
              output == material(dudx, drv.state)
          IN  drv' = [drv EXCEPT !.state = output.state,
                                 !.output_history =
                                     Append(@, << dudx, output.stress, output.state >>),
                                 !.i = @ + 1, !.pc = "loop"]
    /\ DrvFrame

\* return output_history
DrvReturn ==
    /\ drv.pc = "loop"
    /\ drv.i >= drv.num_steps
    /\ drv' = [drv EXCEPT !.pc = "done", !.returned = drv.output_history]
    /\ DrvFrame

----------------------------------------------------------------------------
(* Functional::Functional: the constructor body between #if 0 and #endif   *)
(* is not compiled, so only update_qdata, test_space_, trial_space_ and    *)
(* P_test_ are set.  P_trial_ stays unset and grad_ empty; a call that      *)
(* goes through them either ends the process (Fault) or runs as written.   *)

Functional_ctor ==
    /\ integrals_ = << >>
    /\ input_L_ = [i \in TrialIdx |-> << >>]
    /\ output_L_ = << >>
    /\ output_T_ = << >>
    /\ block_input_E_ = [t \in IntegralTypes |-> [i \in TrialIdx |-> << >>]]
    /\ block_output_E_ = [t \in IntegralTypes |-> << >>]
    /\ P_trial_ = [i \in TrialIdx |-> "unset"]
    /\ grad_ = << >>
    /\ df_ = [i \in TrialIdx |-> << >>]
    /\ col_ind_copy_ = [i \in TrialIdx |-> << >>]
    /\ op = "Functional"
    /\ call = [accepted |-> TRUE]
    /\ trace = << >>
    /\ faulted = FALSE
    /\ dfdx = "none"
    /\ update_qdata = FALSE
    /\ tables = [i \in TrialIdx |-> lookup_tables]

AdjIdle ==
    adj = [v |-> ZeroL, w |-> ZeroE, applied |-> FALSE, Gv |-> ZeroE, Sw |-> ZeroL]

EVectorIdle == evector = [made |-> FALSE]

DualIdle == ad = [test |-> "none"]

LceIdle == lce = [constructed |-> FALSE]

CliIdle == cli = [pc |-> "idle"]

DcoIdle == dco = [constructed |-> FALSE]

DrvIdle == drv = [pc |-> "idle"]

AuxIdle == LceIdle /\ CliIdle /\ DcoIdle /\ DrvIdle

Init ==
    /\ Functional_ctor
    /\ order = DefaultOrder
    /\ AdjIdle
    /\ EVectorIdle
    /\ DualIdle
    /\ AuxIdle

InitAdjoint ==
    /\ Functional_ctor
    /\ order = DefaultOrder
    /\ AdjInit
    /\ EVectorIdle
    /\ DualIdle
    /\ AuxIdle

NextAdjoint == AdjApply

SpecAdjoint == InitAdjoint /\ [][NextAdjoint]_vars

InitEVector ==
    /\ Functional_ctor
    /\ order = DefaultOrder
    /\ AdjIdle
    /\ EVectorView_ctor
    /\ DualIdle
    /\ AuxIdle

NextEVector ==
    \/ UpdatePointers
    \/ EVectorIndex

SpecEVector == InitEVector /\ [][NextEVector]_vars

InitTensor ==
    /\ Functional_ctor
    /\ order = DefaultOrder
    /\ AdjIdle
    /\ EVectorIdle
    /\ DualInit
    /\ AuxIdle

NextTensor ==
    \/ Elasticity
    \/ NavierStokes

SpecTensor == InitTensor /\ [][NextTensor]_vars

Next ==
    \/ AddAreaIntegral(EvalDomains, DependsOnArgs)
    \/ CallOperator(EvalArgLists, EvalInputs)
    \/ Fault

\* The perturbation-side operations, on a Functional of Integrals over both
\* trial spaces.
NextGradient ==
    \/ AddAreaIntegral({Quad2}, GradientArgs)
    \/ CallOperator(DifferentiatingArgLists, GradientInputs)
    \/ GradientMult
    \/ GradientCall
    \/ Fault

SpecGradient == Init /\ [][NextGradient]_vars

\* Assembly of the gradient after calls that differentiate.
NextAssemble ==
    \/ AddAreaIntegral({Quad2}, GradientArgs)
    \/ CallOperator(DifferentiatingArgLists, GradientInputs)
    \/ GradientAssemble
    \/ Fault

SpecAssemble == Init /\ [][NextAssemble]_vars

\* The trial vectors of the evaluations that carry quadrature-point state.
StateInputs == { << <<1, 0>>, <<1, 2>> >>, << <<1, 2>>, <<1, 2>> >> }

StateArgLists == { <<FALSE, FALSE>>, <<TRUE, FALSE>> }

\* Evaluations with and without update_qdata, and the gradient action.  The
\* integrals are added while the Functional is set up, before its first
\* evaluation.
NextState ==
    \/ (dfdx = "none" /\ output_T_ = << >> /\ AddAreaIntegral({Quad2}, BuildArgs))
    \/ SetUpdateQdata
    \/ CallOperator(StateArgLists, StateInputs)
    \/ GradientMult
    \/ Fault

SpecState == Init /\ [][NextState]_vars

\* Calls of operator() with every argument list, those that do not compile
\* included.
NextOverload ==
    \/ AddAreaIntegral({Quad2}, BuildArgs)
    \/ CallOperator(ArgLists, EvalInputs)
    \/ Fault

SpecOverload == Init /\ [][NextOverload]_vars

Spec == Init /\ [][Next]_vars

NextBuild ==
    \/ AddDomainIntegral(BuildDomains, BuildArgs)
    \/ AddAreaIntegral(BuildDomains, BuildArgs)
    \/ AddVolumeIntegral(BuildDomains, BuildArgs)

SpecBuild == Init /\ [][NextBuild]_vars

\* DependsOn<args...> with indices that name no trial space among them.
AnyArgs == { <<1>>, <<0, 1>>, <<2>>, <<0, 2>> }

\* Registration with any DependsOn, and the evaluations that gather.
NextDependsOn ==
    \/ AddAreaIntegral(EvalDomains, AnyArgs)
    \/ CallOperator({<<FALSE, FALSE>>}, EvalInputs)
    \/ Fault

SpecDependsOn == Init /\ [][NextDependsOn]_vars

\* test::order and trials::order of the instances of the quadrature check.
Orders == 1 .. 3

InitQuadrature ==
    /\ Functional_ctor
    /\ order \in [test : Orders, trials : [TrialIdx -> Orders]]
    /\ AdjIdle
    /\ EVectorIdle
    /\ DualIdle
    /\ AuxIdle

NextQuadrature ==
    \/ AddDomainIntegral({Quad2, Hex3}, BuildArgs)
    \/ AddAreaIntegral({Quad2, Hex3}, BuildArgs)
    \/ AddVolumeIntegral({Quad2, Hex3}, BuildArgs)

SpecQuadrature == InitQuadrature /\ [][NextQuadrature]_vars

InitMaterial ==
    /\ Functional_ctor
    /\ order = DefaultOrder
    /\ AdjIdle
    /\ EVectorIdle
    /\ DualIdle
    /\ LceInit
    /\ CliIdle
    /\ DcoIdle
    /\ DrvIdle

NextMaterial == BrighentiMechanical_ctor

SpecMaterial == InitMaterial /\ [][NextMaterial]_vars

InitCli ==
    /\ Functional_ctor
    /\ order = DefaultOrder
    /\ AdjIdle
    /\ EVectorIdle
    /\ DualIdle
    /\ LceIdle
    /\ CliInit
    /\ DcoIdle
    /\ DrvIdle

NextCli == DefineAndParse

SpecCli == InitCli /\ [][NextCli]_vars

\* Differentiating evaluations and gradient actions on a Functional whose
\* Integrals depend on the second trial space only or on both.
NextDependence ==
    \/ AddAreaIntegral({Quad2}, DependsOnArgs)
    \/ CallOperator(DifferentiatingArgLists, GradientInputs)
    \/ GradientMult
    \/ Fault

SpecDependence == Init /\ [][NextDependence]_vars

InitThermal ==
    /\ Functional_ctor
    /\ order = DefaultOrder
    /\ AdjIdle
    /\ EVectorIdle
    /\ DualIdle
    /\ LceIdle
    /\ CliIdle
    /\ DynamicConductionOperator_ctor
    /\ DrvIdle

NextThermal ==
    \/ SetMMatrix
    \/ SetKMatrix
    \/ SetLoadVector
    \/ SetEssentialBCs
    \/ Mult
    \/ ImplicitSolve

SpecThermal == InitThermal /\ [][NextThermal]_vars

InitDriver ==
    /\ Functional_ctor
    /\ order = DefaultOrder
    /\ AdjIdle
    /\ EVectorIdle
    /\ DualIdle
    /\ LceIdle
    /\ CliIdle
    /\ DcoIdle
    /\ DrvInit

NextDriver ==
    \/ StepBegin
    \/ RootEvaluation
    \/ StepEnd
    \/ DrvReturn

SpecDriver == InitDriver /\ [][NextDriver]_vars

----------------------------------------------------------------------------
\* C5: Gather and ScatterAdd (from a zero local vector) are exact adjoints,
\* dot(Gather(v), w) = dot(v, ScatterAdd(w)), shared dofs and signs included.
C5_Adjoint ==
    adj.applied => DotE(adj.Gv, adj.w) = DotL(adj.v, adj.Sw)

\* A shared dof with a nonzero value and contributions from both elements,
\* one of them through the reversed orientation.
C5_Witness ==
    /\ adj.applied
    /\ adj.v[2] # 0
    /\ adj.w[1][2] = 1
    /\ adj.w[2][1] = 1
    /\ adj.Gv[2][1] = -adj.v[2]
    /\ adj.Sw[2] = 0

----------------------------------------------------------------------------
(* Properties of one completed Functional::operator() call. *)

Completed == op = "operator()" /\ call.accepted

Positions(name, type, k) ==
    {n \in 1 .. Len(trace) :
        trace[n].ev = name /\ trace[n].type = type /\ trace[n].k = k}

PositionsOf(name) == {n \in 1 .. Len(trace) : trace[n].ev = name}

Lists(I, i) == i \in Range(I.active_trial_spaces)

Needed(type, i) ==
    \E k \in 1 .. Len(integrals_) : integrals_[k].type = type /\ Lists(integrals_[k], i)

\* C2: in one call, each (integral type, trial space) is gathered at most once,
\* and exactly once when some Integral of that type lists the space; the
\* flags start false in every call, so the buffer holds the gather of the
\* input of this call.
C2_GatherOncePerCall ==
    Completed =>
        \A type \in IntegralTypes, i \in TrialIdx :
            /\ Cardinality(Positions("Gather", type, i)) <= 1
            /\ Needed(type, i) =>
                  /\ Cardinality(Positions("Gather", type, i)) = 1
                  /\ block_input_E_[type][i] = Gather(Prolongate(call.input_T[i]))

\* Two Integrals share trial space 1, it was gathered once, and the derivative
\* kept from an earlier call was taken at another input than this call's.
C2_Witness ==
    /\ Completed
    /\ call.wrt = -1
    /\ Len(integrals_) = 2
    /\ Lists(integrals_[1], 1) /\ Lists(integrals_[2], 1)
    /\ Cardinality(Positions("Gather", "Domain", 1)) = 1
    /\ integrals_[1].dq[1][1][1][2] # 4 * Mel[1][2] * block_input_E_["Domain"][1][1][2]

\* C3: the stages of one call are ordered: every prolongation before every
\* Gather; per Integral, the Gather of each active space before its Mult and
\* its Mult before its ScatterAdd; the one prolongate-transpose last.
C3_StagesOrdered ==
    Completed =>
        /\ \A i \in TrialIdx : Cardinality(Positions("P_trial", "none", i)) = 1
        /\ \A n \in PositionsOf("P_trial"), m \in PositionsOf("Gather") : n < m
        /\ \A k \in 1 .. Len(integrals_) :
              LET type == integrals_[k].type
              IN  /\ Cardinality(Positions("Mult", type, k)) = 1
                  /\ Cardinality(Positions("ScatterAdd", type, k)) = 1
                  /\ \A i \in Range(integrals_[k].active_trial_spaces) :
                        \E g \in Positions("Gather", type, i) :
                            \A m \in Positions("Mult", type, k) : g < m
                  /\ \A m \in Positions("Mult", type, k),
                        a \in Positions("ScatterAdd", type, k) : m < a
        /\ PositionsOf("P_test_T") = {Len(trace)}
        /\ \A a \in PositionsOf("ScatterAdd") : a < Len(trace)

\* A call over two Integrals: 2 prolongations, 2 gathers, 2 Mult, 2 ScatterAdd
\* and the prolongate-transpose.
C3_Witness ==
    /\ Completed
    /\ Len(integrals_) = 2
    /\ integrals_[1].active_trial_spaces = <<1>>
    /\ integrals_[2].active_trial_spaces = <<0, 1>>
    /\ Len(trace) = 9

\* The element output of Integral k for the trial vectors of the call.
OwnOutput(k) ==
    IntegralMult(integrals_[k],
                 [i \in TrialIdx |-> Gather(Prolongate(call.input_T[i]))])

RECURSIVE ScatterOwnOutputs(_, _)
ScatterOwnOutputs(k, out) ==
    IF k > Len(integrals_) THEN out
    ELSE ScatterOwnOutputs(k + 1, ScatterAdd(OwnOutput(k), out))

\* C4: the local residual of a call is the sum over all Integrals of
\* ScatterAdd of that Integral's own element output, each counted once,
\* starting from zero.
C4_ResidualIsSumOfIntegrals ==
    Completed => output_L_ = ScatterOwnOutputs(1, ZeroL)

\* Two different Integrals sharing the Domain output buffer, in a call made
\* after an earlier call had left a residual and a derivative behind.
C4_Witness ==
    /\ Completed
    /\ call.wrt = -1
    /\ Len(integrals_) = 2
    /\ integrals_[1].active_trial_spaces # integrals_[2].active_trial_spaces
    /\ integrals_[1].dq[1] # ZeroBlock
    /\ output_L_ # ZeroL

\* C10: a call that differentiates with respect to argument wrt returns the
\* Gradient of grad_ whose which_argument is wrt, and grad_ holds such a
\* Gradient for every trial space of a constructed Functional.
C10_GradientPerArgument ==
    /\ Len(grad_) = num_trial_spaces
    /\ \A i \in TrialIdx : grad_[i + 1].which_argument = i
    /\ (Completed /\ call.wrt >= 0) =>
          /\ call.gradient # "dangling"
          /\ grad_[call.gradient].which_argument = call.wrt

\* C1: after an evaluate-and-differentiate call, the matrix returned by
\* Gradient::assemble() times any true-dof vector dx equals the action of the
\* gradient on dx for the same which_argument.
C1_AssembleAgreesWithAction ==
    op = "Gradient::assemble" =>
        \A dx \in TVecs :
            MatVec(call.K, dx) = ActionOfGradient(Members, dx, call.which).outT

\* C6: AddDomainIntegral with a domain of zero elements reports no error and
\* appends nothing, so every later residual and gradient action is what it
\* would have been without the call.
C6_ZeroElementDomainIsNoOp ==
    (op \in AddOps /\ GetNE(call.domain) = 0) =>
        /\ call.err = "none"
        /\ integrals_ = call.before
        /\ \A p \in EvalInputs :
              operator_paren(Members, -1, TrialVectors(p)).outT
                = operator_paren([Members EXCEPT !.ints = call.before], -1,
                                 TrialVectors(p)).outT
        /\ \A which \in TrialIdx, dx \in TVecs :
              ActionOfGradient(Members, dx, which).outT
                = ActionOfGradient([Members EXCEPT !.ints = call.before], dx, which).outT

\* A zero-element domain handed to a Functional that has an Integral and has
\* been evaluated and differentiated before.
C6_Witness ==
    /\ op \in AddOps
    /\ GetNE(call.domain) = 0
    /\ Len(integrals_) >= 1
    /\ integrals_[1].dq[1] # ZeroBlock
    /\ output_T_ # << >>

\* C7 as stated: every call whose declared dimension differs from
\* domain.Dimension() reports a configuration error.
C7_EveryMismatchReported ==
    (op \in AddOps /\ call.dim # call.domain.dim) => call.err # "none"

\* C7 as amended: a call with a domain of at least one element whose declared
\* dimension differs from domain.Dimension() reports the dimension error
\* during that call; a call with a zero-element domain reports nothing,
\* whatever the declared dimension.
C7_MismatchReportedUnlessEmpty ==
    op \in AddOps =>
        /\ (GetNE(call.domain) > 0 /\ call.dim # call.domain.dim) =>
              call.err = "invalid mesh dimension for domain integral"
        /\ GetNE(call.domain) = 0 => call.err = "none"

\* AddVolumeIntegral on a mesh of quadrilaterals.
C7_Witness ==
    /\ op = "AddVolumeIntegral"
    /\ call.domain = Quad2
    /\ call.err = "invalid mesh dimension for domain integral"

HasUnsupportedElement(mesh) ==
    \E e \in 1 .. GetNE(mesh) : mesh.types[e] \in {"POINT", "WEDGE", "PYRAMID"}

\* C8: contains_unsupported_elements is true exactly when some element is a
\* POINT, WEDGE or PYRAMID, and AddDomainIntegral on such a domain reports a
\* configuration error during the call.
C8_UnsupportedElementsRejected ==
    op \in AddOps =>
        /\ call.unsupported <=> HasUnsupportedElement(call.domain)
        /\ call.unsupported => call.err # "none"

\* A mesh of the declared dimension whose last element is a wedge.
C8_Witness ==
    /\ op = "AddVolumeIntegral"
    /\ call.domain = [dim |-> 3, types |-> <<"HEXAHEDRON", "WEDGE">>]
    /\ call.unsupported
    /\ call.err = "Mesh contains unsupported element type"

\* C9: operator() takes exactly num_trial_spaces arguments with at most one
\* wrapped by differentiate_wrt; index_of_differentiation is the position of
\* the wrapped argument or -1, and every Integral::Mult of the call gets it.
C9_DifferentiationIndex ==
    op = "operator()" =>
        LET m       == call.matching
            wrapped == {k \in 1 .. Len(m) : m[k]}
        IN  /\ call.accepted <=>
                  (Len(m) = num_trial_spaces /\ \A j, k \in wrapped : j = k)
            /\ call.accepted =>
                  /\ wrapped = {} => call.wrt = -1
                  /\ wrapped # {} => wrapped = {call.wrt + 1}
                  /\ Cardinality(PositionsOf("Mult")) = Len(integrals_)
                  /\ \A n \in PositionsOf("Mult") : trace[n].wrt = call.wrt

\* A call that wraps its second argument, over a stored Integral.
C9_Witness ==
    /\ Completed
    /\ call.matching = <<FALSE, TRUE>>
    /\ call.wrt = 1
    /\ Len(integrals_) >= 1
    /\ \E n \in PositionsOf("Mult") : trace[n].wrt = 1

----------------------------------------------------------------------------
(* Properties of the gradient action and of Gradient::assemble. *)

ActionOps == {"Gradient::Mult", "Gradient::operator()"}

\* C11: the gradient action runs no Integral::Mult (so no q-function): one
\* prolongation, of the perturbed space; per integral type at most one Gather,
\* of that space, before the first GradientMult of the type; per Integral one
\* GradientMult then one ScatterAdd; one prolongate-transpose, last.
C11_ActionNeverEvaluates ==
    op \in ActionOps =>
        /\ PositionsOf("Mult") = {}
        /\ PositionsOf("P_trial") = {1}
        /\ trace[1].k = call.which
        /\ \A n \in PositionsOf("Gather") : trace[n].k = call.which
        /\ \A type \in IntegralTypes :
              Cardinality({n \in PositionsOf("Gather") : trace[n].type = type}) <= 1
        /\ \A k \in 1 .. Len(integrals_) :
              LET type == integrals_[k].type
              IN  /\ Cardinality(Positions("GradientMult", type, k)) = 1
                  /\ Cardinality(Positions("ScatterAdd", type, k)) = 1
                  /\ \E g \in Positions("Gather", type, call.which) :
                        \A m \in Positions("GradientMult", type, k) : g < m
                  /\ \A m \in Positions("GradientMult", type, k),
                        a \in Positions("ScatterAdd", type, k) : m < a
        /\ PositionsOf("P_test_T") = {Len(trace)}
        /\ Len(trace) = 2 + Cardinality(PositionsOf("Gather")) + 2 * Len(integrals_)

\* The action of the gradient over two Integrals of the same type: one
\* prolongation, one Gather, two GradientMult, two ScatterAdd, one transpose.
C11_Witness ==
    /\ op \in ActionOps
    /\ Len(integrals_) = 2
    /\ Len(trace) = 7
    /\ call.df # ZeroT

\* The per-element Jacobian block of argument which, summed over the Integrals
\* that depend on it (ComputeElementGradients).
K_elem(which, e, i, j) ==
    SumTo([k \in 1 .. Len(integrals_) |->
              IF Lists(integrals_[k], which) THEN integrals_[k].dq[which][e][i][j] ELSE 0],
          Len(integrals_))

\* C12: after assemble, slot k of the value array holds the sum of sign * entry
\* over every element and every (test dof, trial dof) entry of the element
\* Jacobian blocks that the lookup table maps to slot k.
C12_AssembleSumsElementBlocks ==
    op = "Gradient::assemble" =>
        \A k \in 1 .. lookup_tables.nnz :
            call.values[k] =
                SumE([e \in Elems |-> [i \in EDofs |->
                    SumTo([j \in EDofs |->
                              IF element_nonzero_LUT(e, j, i).index = k
                              THEN element_nonzero_LUT(e, j, i).sign * K_elem(call.which, e, i, j)
                              ELSE 0], NumEDofs)]])

\* C13: assemble leaves row_ptr and col_ind of the lookup table of every
\* Gradient as constructed (the matrix borrows col_ind_copy_), and its value
\* array starts as nnz zeros.
C13_AssembleKeepsLookupTables ==
    /\ \A i \in TrialIdx : tables[i] = lookup_tables
    /\ op = "Gradient::assemble" =>
          /\ Len(call.values) = tables[call.which].nnz
          /\ \A k \in 1 .. Len(call.values) : call.values[k] = 0
          /\ Len(col_ind_copy_[call.which]) = tables[call.which].nnz

\* A second assemble on a Gradient whose first assemble had its borrowed
\* column indices reordered by the matrix construction.
C13_Witness ==
    /\ op = "Gradient::assemble"
    /\ call.again
    /\ col_ind_copy_[call.which] # tables[call.which].col_ind

----------------------------------------------------------------------------
(* Quadrature-point state. *)

\* C14: a completed operator() call made while update_qdata is false, and
\* every gradient action, leaves the quadrature-point state of every Integral
\* as it was before the call; update_qdata is false after construction.
C14_StateKeptUnlessFlagSet ==
    /\ op = "Functional" => ~update_qdata
    /\ (Completed /\ ~call.update_qdata) => QData = call.qdata
    /\ op \in ActionOps => QData = call.qdata

\* The flag was set, an evaluation changed the state, the flag was cleared
\* and the evaluation of this state left the changed state alone.
C14_Witness ==
    /\ Completed
    /\ ~call.update_qdata
    /\ Len(integrals_) >= 1
    /\ integrals_[1].qdata[1][2] # InitialState
    /\ integrals_[1].qdata[1][2].deformation_gradient
          # Gather(Prolongate(call.input_T[0]))[1][2] + 1

\* The state the q-function of Integral I leaves at (e, q), started from
\* state, for the trial vectors input_T.
StateAfter(I, e, q, state, input_T) ==
    qf_state(I, [i \in TrialIdx |-> Gather(Prolongate(input_T[i]))], e, q, state)

\* C15: when a completed call with update_qdata set is followed by a call
\* with the same trial vectors and update_qdata set, each quadrature point
\* ends in the state two steps after the one before the first call: the
\* first call left one step, the second call read that and left the next;
\* each call ran each Integral's Mult once and so wrote each point once.
C15_TwoCallsTwoSteps ==
    [][ ( /\ Completed /\ call.update_qdata
          /\ op' = "operator()" /\ call'.accepted /\ call'.update_qdata
          /\ call'.input_T = call.input_T )
        => \A k \in 1 .. Len(integrals_) : \A e \in Elems, q \in EDofs :
              LET I  == integrals_[k]
                  s0 == call.qdata[k][e][q]
                  s1 == StateAfter(I, e, q, s0, call.input_T)
                  s2 == StateAfter(I, e, q, s1, call.input_T)
              IN  /\ I.qdata[e][q] = s1
                  /\ integrals_'[k].qdata[e][q] = s2
                  /\ s2.distribution_tensor.step = s0.distribution_tensor.step + 2
                  /\ s2.distribution_tensor.mu_old = s1.distribution_tensor
                  /\ Cardinality({n \in 1 .. Len(trace') :
                                     trace'[n].ev = "Mult" /\ trace'[n].k = k}) = 1
      ]_vars

\* Two evaluations with the same trial vectors went into the state of every
\* point, and the second started from what the first had left.
C15_Witness ==
    /\ Completed
    /\ call.update_qdata
    /\ Len(integrals_) >= 1
    /\ \A e \in Elems, q \in EDofs :
          LET I  == integrals_[1]
              s1 == StateAfter(I, e, q, InitialState, call.input_T)
          IN  /\ I.qdata[e][q] = StateAfter(I, e, q, s1, call.input_T)
              /\ I.qdata[e][q] # s1

----------------------------------------------------------------------------
(* Properties of the stored Integrals. *)

\* C16: every index in active_trial_spaces of every stored Integral is a
\* trial-space index below num_trial_spaces, and every Gather of a completed
\* operator() call is of such a space.
C16_DependenciesInRange ==
    /\ \A k \in 1 .. Len(integrals_) :
          \A n \in 1 .. Len(integrals_[k].active_trial_spaces) :
              /\ integrals_[k].active_trial_spaces[n] >= 0
              /\ integrals_[k].active_trial_spaces[n] < num_trial_spaces
    /\ Completed =>
          \A n \in PositionsOf("Gather") : trace[n].k >= 0 /\ trace[n].k < num_trial_spaces

\* An AddAreaIntegral with DependsOn<0, 2> was turned down on a Functional
\* that holds two Integrals.
C16_Witness ==
    /\ op = "ill-formed"
    /\ call.args = <<0, 2>>
    /\ Len(integrals_) = 2

\* C17: the Q every stored Integral was built with is one more than the
\* largest of the polynomial orders of the test space and the trial spaces.
C17_QuadratureOrder ==
    \A k \in 1 .. Len(integrals_) :
        LET orders == {order.test} \cup {order.trials[i] : i \in TrialIdx}
        IN  /\ integrals_[k].Q - 1 \in orders
            /\ \A o \in orders : o <= integrals_[k].Q - 1

\* Two Integrals on a Functional whose test space has the highest order.
C17_Witness ==
    /\ Len(integrals_) = 2
    /\ order.test = 3
    /\ \A i \in TrialIdx : order.trials[i] < 3
    /\ integrals_[1].Q = 4
    /\ integrals_[2].Q = 4

----------------------------------------------------------------------------
(* Properties of EVectorView. *)

\* The value operator[] returned for element type I, component j and dof i.
ReturnedValue(I, j, i) ==
    IF evector.types[I].components = 1 THEN evector.values[I][i]
    ELSE evector.values[I][j][i]

----------------------------------------------------------------------------
(* Properties of the dual-number algebra. *)

\* C19: for sigma(eps) = lambda*tr(eps)*I + 2*mu*eps evaluated on
\* sym(make_dual(grad_u)), get_gradient gives the stiffness tensor
\* C_ijkl = lambda*d_ij*d_kl + mu*(d_ik*d_jl + d_il*d_jk), and
\* double_dot(C, sym(grad_u)) equals sigma(sym(grad_u)).
C19_ElasticityGradient ==
    (ad.test = "elasticity" /\ ad.done) =>
        /\ \A i, j, k, l \in Idx :
              ad.dsigma_depsilon[i][j][<<k, l>>] =
                  2 * (ad.lambda * delta(i, j) * delta(k, l)
                         + ad.mu * (delta(i, k) * delta(j, l) + delta(i, l) * delta(j, k)))
        /\ ad.C_epsilon = ad.sigma

\* The inputs of the test: lambda = 5, mu = 3, grad_u(i, j) = i + 2j, whose
\* symmetric part has the half-integer entry 1.5 and stress 3*1.5*2 = 9.
C19_Witness ==
    /\ ad.test = "elasticity"
    /\ ad.done
    /\ ad.lambda = 5
    /\ ad.mu = 3
    /\ ad.grad_u[0][1] = 2 /\ ad.grad_u[1][0] = 1
    /\ ad.sigma[0][1] = 2 * 9
    /\ ad.dsigma_depsilon[0][1][<<1, 0>>] = 2 * 3

\* C20: for sigma(p, v, L) = rho*outer(v,v) + 2*mu*sym(L) - p*I the pass that
\* wraps p gives -I, the pass that wraps v gives rho*(d_ik*v_j + d_jk*v_i) and
\* the pass that wraps L gives mu*(d_ik*d_jl + d_il*d_jk): each gradient has
\* only the components of the wrapped argument and nothing of the others.
C20_OneArgumentDifferentiated ==
    (ad.test = "navier_stokes" /\ ad.done) =>
        \A i, j \in Idx :
            /\ ad.seed = "p" =>
                  /\ DOMAIN ad.ad[i][j] = {<< >>}
                  /\ ad.ad[i][j][<< >>] = 2 * (-delta(i, j))
            /\ ad.seed = "v" =>
                  /\ DOMAIN ad.ad[i][j] = {<<k>> : k \in Idx}
                  /\ \A k \in Idx :
                        ad.ad[i][j][<<k>>] =
                            2 * rho * (delta(i, k) * ad.v[j] + delta(j, k) * ad.v[i])
            /\ ad.seed = "L" =>
                  /\ DOMAIN ad.ad[i][j] = {<<k, l>> : k, l \in Idx}
                  /\ \A k, l \in Idx :
                        ad.ad[i][j][<<k, l>>] =
                            2 * mu_ns * (delta(i, k) * delta(j, l) + delta(i, l) * delta(j, k))

\* The pass that wraps v = (1, 2, 3): d(sigma_01)/dv_0 = rho * v_1 = 6.
C20_Witness ==
    /\ ad.test = "navier_stokes"
    /\ ad.done
    /\ ad.seed = "v"
    /\ ad.v = [i \in Idx |-> i + 1]
    /\ ad.p # 0
    /\ ad.ad[0][1][<<0>>] = 2 * 6

----------------------------------------------------------------------------
\* The checked parameters in the order of the checks, and the word that names
\* each in its message.
LceParameters ==
    << "density", "shear_modulus", "bulk_modulus", "order_constant",
       "transition_temperature" >>

LceMessage ==
    [density |-> "Density must be positive in the LCE material model.",
     shear_modulus |-> "Shear modulus must be positive in the LCE material model.",
     bulk_modulus |-> "Bulk modulus must be positive in the LCE material model.",
     order_constant |-> "Order constant must be positive in the LCE material model.",
     transition_temperature |->
         "The transition temperature must be positive in the LCE material model."]

\* C21 as stated: every parameter that is <= 0 has the error naming it
\* reported, and no error is reported when all five are positive.
C21_EveryNonPositiveParameterNamed ==
    lce.constructed =>
        /\ \A k \in 1 .. Len(LceParameters) :
              lce[LceParameters[k]] <= 0 => lce.err = LceMessage[LceParameters[k]]
        /\ (\A k \in 1 .. Len(LceParameters) : lce[LceParameters[k]] > 0)
              => lce.err = "none"

\* C21 amended: the error reported names the first parameter, in the order
\* density, shear modulus, bulk modulus, order constant, transition
\* temperature, that is <= 0; no error is reported when all five are positive.
C21_FirstNonPositiveParameterNamed ==
    lce.constructed =>
        /\ \A k \in 1 .. Len(LceParameters) :
              (/\ lce[LceParameters[k]] <= 0
               /\ \A j \in 1 .. (k - 1) : lce[LceParameters[j]] > 0)
              => lce.err = LceMessage[LceParameters[k]]
        /\ (\A k \in 1 .. Len(LceParameters) : lce[LceParameters[k]] > 0)
              => lce.err = "none"

\* A construction with a zero bulk modulus and a negative transition
\* temperature after two positive parameters.
C21_Witness ==
    /\ lce.constructed
    /\ lce.density > 0
    /\ lce.shear_modulus > 0
    /\ lce.bulk_modulus = 0
    /\ lce.transition_temperature < 0
    /\ lce.err = LceMessage.bulk_modulus

----------------------------------------------------------------------------
\* The call is over: it returned, or the process exited or was ended.
CliDone == cli.pc \in {"returned", "exited", "aborted"}

Logged(level) == \E k \in 1 .. Len(cli.log) : cli.log[k].level = level

\* What the claim asks of a call that returned: one entry, "input_file", mapped
\* to the path given, the option having been given with an existing file.
ReturnedGivenPath ==
    /\ DOMAIN cli.cli_opts = {"input_file"}
    /\ cli.cli_opts["input_file"] = cli.argv.input_file
    /\ cli.argv.input_file \in ExistingFiles

\* C22: defineAndParse returns only with the one entry "input_file" mapped to
\* the path given, the option supplied and naming an existing file; a help
\* request logs the help text (on rank 0, which does the logging) and exits;
\* every other parse failure is reported as an error (on rank 0) and yields
\* no usable path.
C22_ReturnsOnlyAnExistingFile ==
    CliDone =>
        /\ cli.pc = "returned" => ReturnedGivenPath
        /\ cli.thrown = "CallForHelp" =>
              (cli.pc = "exited" /\ (cli.rank = 0 => Logged("info")))
        /\ cli.thrown \notin {"none", "CallForHelp"} =>
              /\ cli.rank = 0 => Logged("error")
              /\ cli.pc = "returned" => cli.cli_opts["input_file"] \notin ExistingFiles

----------------------------------------------------------------------------
\* The local output of the gradient action summed over the Integrals from k on
\* that depend on argument which, the others left out.
RECURSIVE DependentOutputs(_, _, _, _, _)
DependentOutputs(ints, which, inE, k, out) ==
    IF k > Len(ints) THEN out
    ELSE DependentOutputs(ints, which, inE, k + 1,
            IF which \in Range(ints[k].active_trial_spaces)
            THEN ScatterAdd(IntegralGradientMult(ints[k], inE, which), out)
            ELSE out)

----------------------------------------------------------------------------
\* T = M + dt K of the matrices and essential true dofs that operator d holds.
CurrentT(d, dt) ==
    EliminateRowsCols(Add(1, d.m_M_mat, dt, d.m_K_mat), d.m_ess_tdof_list)

\* C24: an ImplicitSolve call builds T = M + dt K, eliminates the essential
\* dofs from it and hands it to the T solver exactly when dt differs from
\* m_old_dt (-1 at first); otherwise T, the eliminated part and the solver's
\* operator stay as they were; after the call m_old_dt is the call's dt.
C24_TRebuiltWhenDtChanges ==
    [][(dco'.op = "ImplicitSolve" /\ dco'.call.accepted) =>
          LET dt == dco'.call.dt
          IN  /\ dco'.call.rebuilt <=> dt # dco.m_old_dt
              /\ dt # dco.m_old_dt =>
                    /\ dco'.m_T_mat = CurrentT(dco, dt).A
                    /\ dco'.m_T_e_mat = CurrentT(dco, dt).Ae
                    /\ dco'.T_solver.oper = dco'.m_T_mat
              /\ dt = dco.m_old_dt =>
                    /\ dco'.m_T_mat = dco.m_T_mat
                    /\ dco'.m_T_e_mat = dco.m_T_e_mat
                    /\ dco'.T_solver = dco.T_solver
              /\ dco'.m_old_dt = dt
      ]_vars

\* An ImplicitSolve call with the dt of the call before it, which left the T
\* matrix of that call in place.
C24_Witness ==
    /\ dco.op = "ImplicitSolve"
    /\ dco.call.accepted
    /\ ~dco.call.rebuilt
    /\ dco.call.dt = 2
    /\ dco.m_T_mat # nullptr

\* C25: whatever setters and ImplicitSolve calls came before, an ImplicitSolve
\* call with a positive dt solves with T = M + dt K of the M, K and essential
\* true dofs set at the time of the call, and its solver has an operator.
C25_SolvesWithCurrentT ==
    (dco.constructed /\ dco.op = "ImplicitSolve" /\ DcoReady(dco) /\ dco.call.dt > 0) =>
        /\ dco.call.accepted
        /\ dco.T_solver.oper # nullptr
        /\ dco.call.du_dt.oper = CurrentT(dco, dco.call.dt).A

\* C26: Mult and ImplicitSolve leave the caller's load vector and state vector
\* as they were; m_y and m_bc_rhs are written afresh from u and the load
\* vector; Mult leaves m_old_dt, T, its eliminated part and the T solver
\* alone.
C26_CallerVectorsKept ==
    [][(dco'.op \in {"Mult", "ImplicitSolve"} /\ dco'.call.accepted) =>
          LET u    == dco.vectors[dco'.call.u]
              load == dco.vectors[dco.m_rhs]
              bcs  == dco'.op = "Mult" \/ dco.m_ess_bdr_coef # "null"
          IN  /\ dco'.vectors = dco.vectors
              /\ \A i \in TrueDofs \ dco.m_ess_tdof_list : dco'.m_y[i] = u[i]
              /\ dco'.op = "Mult" => dco'.m_y = u
              /\ dco'.m_bc_rhs =
                     IF bcs
                     THEN EliminateBC(dco.m_K_mat, dco.m_K_e_mat, dco.m_ess_tdof_list,
                                      dco'.m_y, load)
                     ELSE load
              /\ dco'.op = "Mult" =>
                    /\ dco'.m_old_dt = dco.m_old_dt
                    /\ dco'.m_T_mat = dco.m_T_mat
                    /\ dco'.m_T_e_mat = dco.m_T_e_mat
                    /\ dco'.T_solver = dco.T_solver
      ]_vars

\* A Mult call whose elimination changed the copy of the load vector, after
\* an ImplicitSolve call had built T, the caller's vectors being as they were
\* handed over.
C26_Witness ==
    /\ dco.constructed
    /\ dco.op = "Mult"
    /\ dco.call.accepted
    /\ dco.m_ess_tdof_list # {}
    /\ dco.m_bc_rhs # dco.vectors[dco.m_rhs]
    /\ dco.m_y = dco.vectors[dco.call.u]
    /\ dco.m_T_mat # nullptr
    /\ dco.vectors = CallerVectors

----------------------------------------------------------------------------
\* The members an evaluation reads are set and sized.
MembersInitialized ==
    /\ \A i \in TrialIdx :
          /\ P_trial_[i] # "unset"
          /\ Len(input_L_[i]) = NumLDofs
          /\ \A type \in IntegralTypes : Len(block_input_E_[type][i]) = NumElems
    /\ \A type \in IntegralTypes : Len(block_output_E_[type]) = NumElems

\* C27: whenever operator() or the action of the gradient starts, the
\* constructor has set every P_trial_[i] and sized every input_L_[i],
\* block_input_E_[type][i] and block_output_E_[type].
C27_MembersInitializedBeforeUse ==
    [][((op' \in {"operator()", "fault"} \cup ActionOps) /\ (call'.accepted \/ op' = "fault"))
          => MembersInitialized]_vars

----------------------------------------------------------------------------
\* The Functional's members with the scratch vectors cleared: what an earlier
\* evaluation or gradient action left in them is gone.
ScratchCleared ==
    [Members EXCEPT !.inL = [i \in TrialIdx |-> ZeroL], !.outL = ZeroL,
                    !.bin = [t \in IntegralTypes |-> [i \in TrialIdx |-> ZeroE]],
                    !.bout = [t \in IntegralTypes |-> ZeroE]]

\* C28: with update_qdata false the residual a call returns is the one the
\* same call returns with cleared scratch vectors, so it depends on the trial
\* vectors alone and two calls with the same vectors agree, whatever
\* evaluations and gradient actions ran in between.
C28_ResidualIndependentOfEarlierCalls ==
    (Completed /\ ~update_qdata) =>
        output_T_ = operator_paren(ScratchCleared, call.wrt, call.input_T).outT

\* An evaluation made after a gradient action had left its result and its
\* gathered perturbation behind.
C28_Witness ==
    /\ Completed
    /\ ~update_qdata
    /\ Len(integrals_) = 2
    /\ \E i \in TrialIdx : df_[i] # << >> /\ df_[i] # ZeroT
    /\ output_T_ # ZeroT

----------------------------------------------------------------------------
----------------------------------------------------------------------------
\* The state after the first k recorded steps, each one material call on the
\* state the step before it left.
RECURSIVE CarriedState(_, _, _)
CarriedState(history, k, initial_state) ==
    IF k = 0 THEN initial_state
    ELSE material(history[k][1], CarriedState(history, k - 1, initial_state)).state

\* C30: throughout a run the carried state is the initial state advanced by
\* one material call per recorded step, however many evaluations the root
\* finding made; entry k of the history holds the strain at the time after
\* step k, the stress of that step's final material call and the state it
\* left; and the history returned has num_steps entries.
C30_StateAdvancedOncePerStep ==
    drv.pc # "idle" =>
        LET h == drv.output_history
        IN  /\ Len(h) = drv.i
            /\ drv.i <= drv.num_steps
            /\ drv.state = CarriedState(h, Len(h), drv.initial_state)
            /\ \A k \in 1 .. Len(h) :
                  /\ h[k][1][1] = epsilon_xx(k)
                  /\ h[k][2] = material(h[k][1],
                                        CarriedState(h, k - 1, drv.initial_state)).stress
                  /\ h[k][3] = CarriedState(h, k, drv.initial_state)
            /\ drv.pc = "done" =>
                  /\ drv.returned = h
                  /\ Len(drv.returned) = drv.num_steps

\* A finished run of at least two steps whose root finding evaluated the
\* material at least twice; the copy of the last evaluation was advanced
\* once from the state its step began with, as the carried state then was.
C30_Witness ==
    /\ drv.pc = "done"
    /\ drv.num_steps >= 2
    /\ Len(drv.returned) = drv.num_steps
    /\ drv.evaluations >= 2
    /\ drv.copy = drv.state
    /\ drv.returned[1][3] # drv.returned[2][3]

====
